---- MODULE Spec2Model ----
(***************************************************************************)
(* Streaming chat orchestration of the Lia backend:                        *)
(*   backend/app/services/chat.py       ChatOrchestrator.process_chat_stream*)
(*   backend/app/services/sentiment.py  IncrementalSentimentAnalyzer.update *)
(*   backend/app/db/session.py          get_db                              *)
(*                                                                         *)
(* Scores are Python floats in the source.  They are modelled as exact     *)
(* rationals [num, den] counted in units of 1/Scale (Scale units = 1.0),   *)
(* so that round(x, 4) is rounding to a whole number of units.  Binary     *)
(* floating point rounding error (below 1e-15) is not modelled.            *)
(***************************************************************************)
EXTENDS Integers, Sequences, FiniteSets, TLC

\* ------------------------------------------------------------------------
\* Bounds of the model
\* ------------------------------------------------------------------------
\* number of streamChat requests run one after another
MaxRequests == 2
\* number of non-terminal chunks one adapter stream yields at most
MaxChunks == 2
\* largest count of the states the update function is applied to on its own
MaxCount == 3

\* ------------------------------------------------------------------------
\* Program constants
\* ------------------------------------------------------------------------
\* round(score, 4): four decimals, so 1.0 is 10000 units
Scale == 10000
\* score_to_label thresholds 0.1 and -0.1, in units
LabelThreshold == 1000
\* _load_context(max_messages=10)
ContextWindow == 10

Providers == {"gemini", "openai"}
Methods == {"structured", "llm_separate", "nlp_api"}
Labels == {"Positive", "Negative", "Neutral"}

\* Python None
None == [kind |-> "None"]

\* ------------------------------------------------------------------------
\* Rational scores
\* ------------------------------------------------------------------------
Rat(n, d) == [num |-> n, den |-> d]

RatOfInt(n) == Rat(n, 1)

\* a = b for rationals with positive denominators
RatEq(a, b) == a.num * b.den = b.num * a.den

\* Python floor division of n by the positive d
FloorDiv(n, d) == n \div d

\* round(x, 4) for x = num/den units: nearest whole unit, ties to even
Round4(r) ==
  LET q == FloorDiv(r.num, r.den)
      twice == 2 * (r.num - q * r.den)
  IN  IF twice < r.den THEN q
      ELSE IF twice > r.den THEN q + 1
      ELSE IF q % 2 = 0 THEN q ELSE q + 1

\* max(-1.0, min(1.0, x)) on whole units
Clamp(x) == IF x > Scale THEN Scale ELSE IF x < -Scale THEN -Scale ELSE x

\* ------------------------------------------------------------------------
\* sentiment.py: SentimentResult, CumulativeState
\* ------------------------------------------------------------------------
\* a labelling whose thresholds are inclusive
score_to_label_inclusive(r) ==
  IF r.num >= LabelThreshold * r.den THEN "Positive"
  ELSE IF r.num <= -LabelThreshold * r.den THEN "Negative"
  ELSE "Neutral"

\* score_to_label(score): Positive above 0.1, Negative below -0.1
score_to_label(r) ==
  IF r.num > LabelThreshold * r.den THEN "Positive"
  ELSE IF r.num < -LabelThreshold * r.den THEN "Negative"
  ELSE "Neutral"

\* SentimentResult(score, label, source, emotion, summary)
SentimentResult(sc, lb, src, em, sm) ==
  [kind |-> "result", score |-> sc, label |-> lb, source |-> src,
   emotion |-> em, summary |-> sm]

\* SentimentResult.neutral()
neutral == SentimentResult(RatOfInt(0), "Neutral", "default", "neutral", "None")

\* CumulativeState(summary, score, count, label)
CumulativeState(sm, sc, ct, lb) ==
  [summary |-> sm, score |-> sc, count |-> ct, label |-> lb]

\* CumulativeState(): the defaults of the dataclass
DefaultState == CumulativeState("", RatOfInt(0), 0, "Neutral")

\* CumulativeState.to_dict: the blob stored on the conversation row
to_dict(st) ==
  [kind |-> "dict", summary |-> st.summary, score |-> Round4(st.score),
   count |-> st.count, label |-> st.label]

\* CumulativeState.from_dict
from_dict(data) ==
  IF data = None THEN DefaultState
  ELSE CumulativeState(data.summary, RatOfInt(data.score), data.count, data.label)

\* str.lower() on the labels
Lower(lb) ==
  CASE lb = "Positive" -> "positive"
    [] lb = "Negative" -> "negative"
    [] OTHER -> "neutral"

\* f"User is {x}"
UserIs(x) ==
  CASE x = "happy" -> "User is happy"
    [] x = "sad" -> "User is sad"
    [] x = "neutral" -> "User is neutral"
    [] x = "positive" -> "User is positive"
    [] x = "negative" -> "User is negative"
    [] OTHER -> "User is ?"

\* Python truthiness of an optional string
Truthy(s) == s # "None" /\ s # ""

\* x or y
OrElse(x, y) == IF Truthy(x) THEN x ELSE y
\* data.get("summary", "")[:100]: "LONG" stands for a text of more than
\* 100 characters, every other summary of the model is shorter
CapSummary(s) == IF s = "LONG" THEN "LONG[:100]" ELSE s

IsNone(x) == x = None

\* ------------------------------------------------------------------------
\* sentiment.py: IncrementalSentimentAnalyzer.update
\* ------------------------------------------------------------------------
\* (current_state.score * old_weight + message_sentiment.score * new_weight) / total
WeightedScore(cs, ms) ==
  LET old_weight == cs.count
      new_weight == 1
      total == old_weight + new_weight
  IN  Rat(cs.score.num * old_weight * ms.score.den
            + ms.score.num * new_weight * cs.score.den,
          cs.score.den * ms.score.den * total)

\* provider != "gemini" and a message sentiment: weighted average
fallback_local(cs, ms) ==
  LET new_score == WeightedScore(cs, ms)
      new_label == score_to_label(new_score)
  IN  [result |-> SentimentResult(new_score, new_label, "incremental_fallback",
                                  "None", cs.summary),
       state |-> CumulativeState(cs.summary, new_score, cs.count + 1, new_label)]

\* an advance that derives the label again from the score
advanced_local_relabel(cs) ==
  [result |-> SentimentResult(cs.score, score_to_label(cs.score),
                              "incremental_unchanged", "None", cs.summary),
   state |-> CumulativeState(cs.summary, cs.score, cs.count + 1,
                             score_to_label(cs.score))]

\* provider != "gemini" and no message sentiment: only the count advances
advanced_local(cs) ==
  [result |-> SentimentResult(cs.score, cs.label, "incremental_unchanged",
                              "None", cs.summary),
   state |-> CumulativeState(cs.summary, cs.score, cs.count + 1, cs.label)]

\* seeding that builds the summary from the emotion alone
seed_emotion_only(ms) ==
  LET summary == UserIs(ms.emotion)
  IN  [result |-> SentimentResult(ms.score, ms.label, "incremental",
                                  ms.emotion, summary),
       state |-> CumulativeState(summary, ms.score, 1, ms.label)]

\* first message: the message sentiment seeds the state
seed(ms) ==
  LET summary == UserIs(OrElse(ms.emotion, Lower(ms.label)))
  IN  [result |-> SentimentResult(ms.score, ms.label, "incremental",
                                  ms.emotion, summary),
       state |-> CumulativeState(summary, ms.score, 1, ms.label)]

\* the incremental model call answered with JSON text
incremental(cs, llm) ==
  LET score == RatOfInt(Clamp(llm.score))
      label == IF llm.label = "absent" THEN score_to_label(score) ELSE llm.label
      summary == CapSummary(llm.summary)
  IN  [result |-> SentimentResult(score, label, "incremental", "None", summary),
       state |-> CumulativeState(summary, score, cs.count + 1, label)]

\* a fallback that takes the plain mean of the two scores
fallback_llm_mean(cs, ms) ==
  LET new_score == Rat(cs.score.num * ms.score.den + ms.score.num * cs.score.den,
                       2 * cs.score.den * ms.score.den)
      new_label == score_to_label(new_score)
  IN  [result |-> SentimentResult(new_score, new_label, "incremental_fallback",
                                  "None", cs.summary),
       state |-> CumulativeState(cs.summary, new_score, cs.count + 1, new_label)]

\* the incremental call raised or returned no text, and a message sentiment
fallback_llm(cs, ms) ==
  LET new_score == WeightedScore(cs, ms)
      new_label == score_to_label(new_score)
  IN  [result |-> SentimentResult(new_score, new_label, "incremental_fallback",
                                  "None", cs.summary),
       state |-> CumulativeState(cs.summary, new_score, cs.count + 1, new_label)]

\* an unchanged state that also keeps the count
unchanged_same_count(cs) ==
  [result |-> SentimentResult(cs.score, cs.label, "incremental_unchanged",
                              "None", cs.summary),
   state |-> CumulativeState(cs.summary, cs.score, cs.count, cs.label)]

\* the incremental call did not succeed and there is no message sentiment
unchanged(cs) ==
  [result |-> SentimentResult(cs.score, cs.label, "incremental_unchanged",
                              "None", cs.summary),
   state |-> CumulativeState(cs.summary, cs.score, cs.count + 1, cs.label)]

\* update(new_message, current_state, message_sentiment, provider, model);
\* llm is the outcome of the generate_content call, used only when made
update(cs, ms, provider, llm) ==
  IF provider # "gemini"
    THEN IF ~IsNone(ms) THEN fallback_local(cs, ms) ELSE advanced_local(cs)
  ELSE IF cs.count = 0 /\ ~IsNone(ms) THEN seed(ms)
  ELSE IF llm.out = "json" THEN incremental(cs, llm)
  ELSE IF ~IsNone(ms) THEN fallback_llm(cs, ms)
  ELSE unchanged(cs)

\* SentimentService.update_cumulative delegates to the analyzer
update_cumulative(cs, ms, provider, llm) == update(cs, ms, provider, llm)
\* SentimentResult.to_dict
result_to_dict(r) ==
  IF Truthy(r.summary)
    THEN [score |-> Round4(r.score), label |-> r.label, emotion |-> r.emotion,
          source |-> r.source, summary |-> r.summary]
    ELSE [score |-> Round4(r.score), label |-> r.label, emotion |-> r.emotion,
          source |-> r.source]

\* ------------------------------------------------------------------------
\* What the external collaborators can answer
\* ------------------------------------------------------------------------
\* str(e) of the exceptions that can be raised
ExcTexts == {"upstream exploded", "secret_api_key=abc123"}

\* results of SentimentService.analyze (the label is the model's own
\* judgment and need not agree with the score; the emotion may be missing)
AnalyzeResults(method) ==
  { SentimentResult(RatOfInt(8000), "Positive", method, "happy", "None"),
    SentimentResult(RatOfInt(500), "Positive", method, "None", "None") }

\* sentiment fields of the terminal chunk of generate_structured_stream
FinalSentiments ==
  { [score |-> <<-8000>>, label |-> "Negative", emotion |-> "sad"],
    [score |-> <<15000>>, label |-> "Positive", emotion |-> "happy"],
    [score |-> <<>>, label |-> "None", emotion |-> "None"] }

\* struct_chunk.sentiment_score or 0.0 (an absent score is the empty tuple)
ScoreOrZero(opt) == IF opt = <<>> THEN 0 ELSE opt[1]

\* outcomes of the incremental generate_content call
NoCall == [out |-> "not_called"]

LLMOutcomes ==
  { [out |-> "raise"], [out |-> "empty"],
    [out |-> "json", score |-> 2000, label |-> "Positive", summary |-> "calm"],
    [out |-> "json", score |-> -15000, label |-> "absent", summary |-> "LONG"] }

\* update makes the model call only past the provider test and the seeding test
CallMade(cs, ms, provider) ==
  provider = "gemini" /\ ~(cs.count = 0 /\ ~IsNone(ms))

OutcomesFor(cs, ms, provider) ==
  IF CallMade(cs, ms, provider) THEN LLMOutcomes ELSE {NoCall}

\* chunks an adapter stream can yield before its terminal chunk
BodyChunks ==
  { [content |-> TRUE, is_thought |-> FALSE, is_final |-> FALSE],
    [content |-> TRUE, is_thought |-> TRUE, is_final |-> FALSE],
    [content |-> FALSE, is_thought |-> FALSE, is_final |-> FALSE] }

\* the terminal chunk (content "" in both adapters)
FinalChunk == [content |-> FALSE, is_thought |-> FALSE, is_final |-> TRUE]
\* ------------------------------------------------------------------------
\* services/cache: the operations of CacheService over one backend
\* ------------------------------------------------------------------------
\* most client calls one operation makes (set_user_data: hset, expire, set)
MaxClientCalls == 3

\* a backend: configured or not (_client is None), and which client call
\* of the operation raises (0: none does)
Backends ==
  { [configured |-> c, fail_at |-> f] :
      c \in BOOLEAN, f \in 0..MaxClientCalls }

\* what the backend holds under the key the operation reads
StoredValues == {"absent", "value"}

\* an operation returns a value or raises
Ret(v) == [raised |-> FALSE, value |-> v]
Raises == [raised |-> TRUE, value |-> "exception"]

\* is_available
is_available(b) == b.configured

\* the n-th client call of the operation raises
Fails(b, n) == b.fail_at = n

\* the read primitives (get, hget, hgetall, lrange, zrange, mget): the
\* availability test, one client call inside try, and the value returned
\* when there is nothing to return (None, [] or a None for every key)
guarded_read(b, n, st, empty) ==
  IF ~is_available(b) THEN Ret(empty)
  ELSE IF Fails(b, n) THEN Ret(empty)
  ELSE IF st = "value" THEN Ret("data") ELSE Ret(empty)

\* the write primitives and the pipelines: the availability test, then
\* the client calls inside one try (set, lpush, ltrim, zrem, ping: one
\* call; hset, rpush, zadd with a ttl, mset and the pipelines: two;
\* set_conversation_history: delete, zadd, expire)
guarded_write(b, n, calls) ==
  IF ~is_available(b) THEN Ret("False")
  ELSE IF \E i \in 0..(calls - 1) : Fails(b, n + i) THEN Ret("False")
  ELSE Ret("True")

\* a read whose value is decoded (json.loads, or the typed copy of
\* get_user_data): None when the primitive returned nothing
decoded_read(b, n, st, empty) ==
  LET data == guarded_read(b, n, st, empty)
  IN  IF data.raised THEN data
      ELSE IF data.value = "data" THEN Ret("data") ELSE Ret("None")

\* a delete whose client call is not inside a try
delete_unguarded(b, n) ==
  IF ~is_available(b) THEN Ret("False")
  ELSE IF Fails(b, n) THEN Raises
  ELSE Ret("True")

\* BaseCacheOperations.delete
delete(b, n) ==
  IF ~is_available(b) THEN Ret("False")
  ELSE IF Fails(b, n) THEN Ret("False")
  ELSE Ret("True")

\* BaseCacheOperations.delete_pattern: keys, then delete when keys matched
delete_pattern(b, n, st) ==
  IF ~is_available(b) THEN Ret("0")
  ELSE IF Fails(b, n) THEN Ret("0")
  ELSE IF st = "value"
    THEN IF Fails(b, n + 1) THEN Ret("0") ELSE Ret("count")
    ELSE Ret("0")

\* ConversationCacheMixin.invalidate_conversation: the availability test
\* is inside the try and True is returned when nothing raised
invalidate_conversation(b, n) ==
  IF is_available(b) /\ Fails(b, n) THEN Ret("False") ELSE Ret("True")

\* ConversationCacheMixin.remove_from_history: zrange, then zrem of the
\* member with the id, all inside one try
remove_from_history(b, n, st) ==
  IF ~is_available(b) THEN Ret("False")
  ELSE LET items == guarded_read(b, n, st, "[]")
       IN  IF items.raised THEN Ret("False")
           ELSE IF items.value = "[]" THEN Ret("False")
           ELSE IF Fails(b, n + 1) THEN Ret("False")
           ELSE Ret("True")

\* UserCacheMixin.set_user_data: hset, and the email index when it succeeded
set_user_data(b, n) ==
  LET success == guarded_write(b, n, 2)
  IN  IF success.raised THEN success
      ELSE IF success.value = "True"
        THEN LET index == guarded_write(b, n + 2, 1)
             IN  IF index.raised THEN index ELSE success
        ELSE success

\* UserCacheMixin.get_user_by_email: the index, then get_user_data
get_user_by_email(b, n, st) ==
  LET user_id_str == guarded_read(b, n, st, "None")
  IN  IF user_id_str.raised THEN user_id_str
      ELSE IF user_id_str.value = "None" THEN Ret("None")
      ELSE decoded_read(b, n + 1, st, "None")

\* UserCacheMixin.invalidate_user_data with an email: two deletes
invalidate_user_data(b, n) ==
  LET success == delete(b, n)
  IN  IF success.raised THEN success
      ELSE LET index == delete(b, n + 1)
           IN  IF index.raised THEN index ELSE success

\* the operations that read
ReadOps ==
  {"get", "get_json", "hget", "hgetall", "lrange", "zrange", "mget",
   "get_conversation_context", "get_user_messages",
   "get_conversation_history", "get_conversation_detail", "get_user_data",
   "get_user_by_email", "get_available_models", "get_sentiment_methods"}

\* the operations that write or delete
WriteOps ==
  {"set", "delete", "delete_pattern", "set_json", "hset", "lpush", "rpush",
   "ltrim", "zadd", "zrem", "mset", "check_health",
   "set_conversation_context", "append_to_context",
   "invalidate_conversation", "set_user_messages", "append_user_message",
   "set_conversation_history", "add_to_history", "remove_from_history",
   "invalidate_user_history", "set_conversation_detail",
   "invalidate_user_conversations", "set_user_data", "invalidate_user_data",
   "set_available_models", "set_sentiment_methods"}

\* one call of the operation on the backend
CallOp(op, b, st) ==
  CASE op \in {"get", "hget", "hgetall"} -> guarded_read(b, 1, st, "None")
    [] op \in {"lrange", "zrange"} -> guarded_read(b, 1, st, "[]")
    [] op = "mget" -> guarded_read(b, 1, st, "[None]*len")
    [] op \in {"get_json", "get_conversation_detail", "get_user_data",
               "get_available_models", "get_sentiment_methods"} ->
         decoded_read(b, 1, st, "None")
    [] op \in {"get_conversation_context", "get_user_messages",
               "get_conversation_history"} ->
         decoded_read(b, 1, st, "[]")
    [] op \in {"set", "set_json", "lpush", "ltrim", "zrem", "check_health",
               "set_conversation_detail", "set_available_models",
               "set_sentiment_methods"} ->
         guarded_write(b, 1, 1)
    [] op \in {"hset", "rpush", "zadd", "mset", "set_conversation_context",
               "append_to_context", "set_user_messages",
               "append_user_message", "add_to_history"} ->
         guarded_write(b, 1, 2)
    [] op = "set_conversation_history" -> guarded_write(b, 1, 3)
    [] op \in {"delete", "invalidate_user_history",
               "invalidate_user_conversations"} ->
         delete(b, 1)
    [] op = "delete_pattern" -> delete_pattern(b, 1, st)
    [] op = "invalidate_conversation" -> invalidate_conversation(b, 1)
    [] op = "remove_from_history" -> remove_from_history(b, 1, st)
    [] op = "set_user_data" -> set_user_data(b, 1)
    [] op = "get_user_by_email" -> get_user_by_email(b, 1, st)
    [] OTHER -> invalidate_user_data(b, 1)

\* the arguments of one call: the operation, the backend, the stored value
CacheInputs ==
  { [op |-> op, backend |-> b, stored |-> st] :
      op \in ReadOps \cup WriteOps, b \in Backends, st \in StoredValues }

\* ------------------------------------------------------------------------
\* State
\* ------------------------------------------------------------------------
VARIABLES
  pc,                 \* position of process_chat_stream / the request
  req,                \* provider and sentiment_method of the request
  exc,                \* str(e) of the exception being handled
  fault,              \* the step of this request that raised, or "none"
  events,             \* SSE events yielded so far by this request
  stream,             \* chunks the adapter stream has yielded so far
  full_response,      \* indices of the chunks accumulated in full_response
  thoughts,           \* indices of the chunks accumulated in thoughts
  context,            \* roles of the turns loaded as prompt window
  user_message,       \* the user Message object of this request, or None
  assistant_message,  \* the assistant Message object of this request, or None
  message_sentiment,  \* SentimentResult or None
  sentiment_task,     \* the "sentiment:message" task
  cumulative_task,    \* the "sentiment:cumulative" task
  current_state,      \* CumulativeState read before streaming
  cumulative,         \* (cumulative_sentiment, new_state) or None
  inc_call,           \* outcome of the incremental model call of this request
  conv,               \* the Conversation row as the session sees it
  messages,           \* roles of the Message rows the session has flushed
  session_ok,         \* FALSE once a statement of the session has failed
  committed,          \* the committed rows
  cache_up,           \* CacheService.is_available
  cache_ctx,          \* roles of the cached context list of the conversation
  nDone,              \* requests that ended with done
  nErr,               \* requests that ended with error
  u_pc, u_in, u_out,  \* a single application of update
  k_pc, k_in, k_out,  \* a single call of a cache operation
  conversations,      \* the committed Conversation rows, by id
  updated_order,      \* each user's live rows by updated_at, latest first
  cache_kv,           \* the cache backend: what each key holds
  detail_task,        \* the pending "cache:set_conversation_detail" task
  history_task,       \* the pending "cache:set_conversation_history" task
  ret,                \* what the last call on a conversation returned
  nCalls,             \* calls made on conversations so far
  a_list,             \* the cached context list of one conversation
  a_log,              \* what was appended since the key was created
  a_ttl,              \* time-to-live of the key: none, full or running
  a_max,              \* max_messages of the append_to_context calls
  a_n,                \* append_to_context calls made so far
  a_ret,              \* what the last append_to_context call returned
  r_has_auth,         \* the settings object has rate_limit_auth_requests_per_minute
  r_enabled,          \* rate_limit_enabled and redis_available of the settings
  r_limit,            \* the configured requests per minute
  r_kind,             \* which of the three checks the client makes
  r_now,              \* the clock, in seconds
  r_zset,             \* the store: the sorted set of the key, <<score, member>>
  r_expiry,           \* the store: when the key expires, 0 for no expiry
  r_checks,           \* the checks the store took, by number
  r_ret,              \* what the last returned check returned
  x_row,              \* committed sentiment_state of one conversation row
  x_req               \* overlapping requests on that row: step, state read, state written

locals == <<req, exc, fault, events, stream, full_response, thoughts, context,
            user_message, assistant_message, message_sentiment, sentiment_task,
            cumulative_task, current_state, cumulative, inc_call>>
dbvars == <<conv, messages, session_ok, committed>>
counters == <<nDone, nErr>>
vars == <<pc, locals, dbvars, cache_up, cache_ctx, counters,
          u_pc, u_in, u_out, k_pc, k_in, k_out,
          conversations, updated_order, cache_kv, detail_task, history_task,
          ret, nCalls,
          a_list, a_log, a_ttl, a_max, a_n, a_ret,
          r_has_auth, r_enabled, r_limit, r_kind, r_now, r_zset, r_expiry,
          r_checks, r_ret, x_row, x_req>>

NoTask == [st |-> "none"]
Running == [st |-> "running"]
Failed == [st |-> "failed"]
Cancelled == [st |-> "cancelled"]
Done(v) == [st |-> "ok", val |-> v]

NoConversation == [exists |-> FALSE, title |-> "None", sentiment_state |-> None]

\* sse_event(event_type, data)
sse_event(event_type, data) == [type |-> event_type, data |-> data]

\* _sentiment_stream_payload(result)
sentiment_stream_payload(r) ==
  IF IsNone(r) THEN None
  ELSE IF Truthy(r.summary)
    THEN [kind |-> "payload", score |-> Round4(r.score), label |-> r.label,
          emotion |-> r.emotion, summary |-> r.summary]
    ELSE [kind |-> "payload", score |-> Round4(r.score), label |-> r.label,
          emotion |-> r.emotion]

\* the request before process_chat_stream has run a step
PipelineInit ==
  /\ pc = "idle"
  /\ req = [provider |-> "gemini", method |-> "llm_separate"]
  /\ exc = "None"
  /\ fault = "none"
  /\ events = <<>>
  /\ stream = <<>>
  /\ full_response = <<>>
  /\ thoughts = <<>>
  /\ context = <<>>
  /\ user_message = None
  /\ assistant_message = None
  /\ message_sentiment = None
  /\ sentiment_task = NoTask
  /\ cumulative_task = NoTask
  /\ current_state = DefaultState
  /\ cumulative = None
  /\ inc_call = NoCall
  /\ conv = NoConversation
  /\ messages = <<>>
  /\ session_ok = TRUE
  /\ committed = [conv |-> NoConversation, messages |-> <<>>]
  /\ cache_ctx = <<>>
  /\ nDone = 0
  /\ nErr = 0

\* the locals of the next call start from the same values
ClearLocals ==
  /\ req' = [provider |-> "gemini", method |-> "llm_separate"]
  /\ exc' = "None"
  /\ fault' = "none"
  /\ events' = <<>>
  /\ stream' = <<>>
  /\ full_response' = <<>>
  /\ thoughts' = <<>>
  /\ context' = <<>>
  /\ user_message' = None
  /\ assistant_message' = None
  /\ message_sentiment' = None
  /\ sentiment_task' = NoTask
  /\ cumulative_task' = NoTask
  /\ current_state' = DefaultState
  /\ cumulative' = None
  /\ inc_call' = NoCall

UpdateIdle ==
  /\ u_pc = "off"
  /\ u_in = None
  /\ u_out = None

CacheOpsIdle ==
  /\ k_pc = "off"
  /\ k_in = None
  /\ k_out = None

\* the cache backend is not configured: settings.redis_available is False
CacheDown == cache_up = FALSE

\* ------------------------------------------------------------------------
\* conversations of several users and the detail cache
\* ------------------------------------------------------------------------
\* conversation ids the database hands out
MaxConversations == 2
ConvIds == 1..MaxConversations

\* calls on conversations in one behaviour
MaxCalls == 4

\* the authenticated callers
Users == {1, 2}

\* titles a caller renames a conversation to
Titles == {"Trip", "Work"}

\* limit of get_conversation_detail when the caller passes none
DefaultLimit == 50

\* first-page and later-page requests
Offsets == {0, DefaultLimit}

\* a Conversation row: never created, live, or deleted
NoRow == [state |-> "absent", user_id |-> 0, title |-> "None"]
Row(u, t) == [state |-> "live", user_id |-> u, title |-> t]

\* _make_key(prefix, *parts): the parts joined by ":" after the prefix
make_key(prefix, parts) == <<prefix>> \o parts

\* the key set_conversation_detail and the cached read use
DetailKey(cid, limit) == make_key("detail", <<ToString(cid), "limit", limit>>)

\* the keys invalidate_conversation deletes
InvalidatedKeys(cid) ==
  { make_key("conv", <<ToString(cid), "context">>),
    make_key("detail", <<ToString(cid)>>),
    make_key("usrmsg", <<ToString(cid)>>) }

\* the key of a user's history listing
HistoryKey(u) == make_key("history", <<ToString(u)>>)

CacheKeys ==
  UNION { InvalidatedKeys(cid) \cup {DetailKey(cid, DefaultLimit)} :
          cid \in ConvIds }
    \cup { HistoryKey(u) : u \in Users }

\* invalidate_user_history deleting every user's listing
invalidate_user_history_of_all(kv, u, call) ==
  IF call = "ok"
    THEN [k \in CacheKeys |->
            IF \E v \in Users : k = HistoryKey(v) THEN None ELSE kv[k]]
    ELSE kv

\* invalidate_user_history(user_id) on the cache contents kv: the delete of
\* the user's key, which takes effect unless the client call raises
invalidate_user_history(kv, u, call) ==
  IF call = "ok" THEN [kv EXCEPT ![HistoryKey(u)] = None] ELSE kv

\* the detail dict built from a row
Detail(cid, row) == [id |-> cid, user_id |-> row.user_id, title |-> row.title]

\* a select filtered by id alone
FindConversationAnyOwner(u, cid) ==
  IF cid \in ConvIds /\ conversations[cid].state = "live"
    THEN conversations[cid] ELSE None

\* the select filtered by id and user_id
FindConversation(u, cid) ==
  IF cid \in ConvIds /\ conversations[cid].state = "live"
       /\ conversations[cid].user_id = u
    THEN conversations[cid] ELSE None

\* a client call of the cache returns or raises
ClientCallOutcomes == IF cache_up THEN {"ok", "raises"} ELSE {"ok"}

\* conversation_id of a chat request: an id, or 0 for none given
RequestedIds == {0} \cup ConvIds

\* the title process_chat_stream gives a new conversation
AutoTitle == "auto"

\* limit of a get_conversation_history call
HistoryLimits == {1, MaxConversations}

\* the first n items of a sequence
FirstN(seq, n) == IF Len(seq) > n THEN SubSeq(seq, 1, n) ELSE seq

\* default and onupdate of Conversation.updated_at: an inserted or updated
\* row becomes the latest of its user (the order of the timestamps is kept,
\* not their values)
Touch(order, u, c) ==
  [order EXCEPT ![u] = <<c>> \o SelectSeq(@, LAMBDA d : d # c)]

\* deleted rows leave the order
Forget(order, u, ids) ==
  [order EXCEPT ![u] = SelectSeq(@, LAMBDA d : d \notin ids)]

\* the rows get_conversation_history selects for a user:
\* where user_id, order_by(updated_at.desc()), limit
Listing(u, limit) ==
  FirstN([i \in 1..Len(updated_order[u]) |->
            [id |-> updated_order[u][i],
             title |-> conversations[updated_order[u][i]].title]],
         limit)

\* ids no row has used yet
FreshIds == { c \in ConvIds : conversations[c].state = "absent" }

\* an empty database and an empty cache
OwnerInit ==
  /\ conversations = [c \in ConvIds |-> NoRow]
  /\ updated_order = [u \in Users |-> <<>>]
  /\ cache_kv = [k \in CacheKeys |-> None]
  /\ detail_task = None
  /\ history_task = None
  /\ ret = [op |-> "none"]
  /\ nCalls = 0

\* append_to_context calls in one behaviour
MaxAppends == 4

\* largest max_messages an append_to_context call is given
MaxMessages == 2

\* append_to_context(message, max_messages) on the list lst: rpush, then
\* ltrim(key, -max_messages, -1) keeps the last max_messages entries
append_to_context_keeps_oldest(lst, message, max_messages) ==
  LET pushed == Append(lst, message)
  IN  SubSeq(pushed, 1, IF Len(pushed) < max_messages THEN Len(pushed)
                        ELSE max_messages)

\* append_to_context(message, max_messages) on the list lst: rpush, then
\* ltrim(key, -max_messages, -1) keeps the last max_messages entries
append_to_context(lst, message, max_messages) ==
  LET pushed == Append(lst, message)
  IN  SubSeq(pushed,
             IF Len(pushed) > max_messages
               THEN Len(pushed) - max_messages + 1 ELSE 1,
             Len(pushed))

AppendIdle ==
  /\ a_list = <<>>
  /\ a_log = <<>>
  /\ a_ttl = "none"
  /\ a_max = 1
  /\ a_n = 0
  /\ a_ret = FALSE

\* ------------------------------------------------------------------------
\* RateLimitService
\* ------------------------------------------------------------------------
\* rate-limit checks in one behaviour
MaxChecks == 3

\* largest configured requests per minute
MaxLimit == 2

\* rate-limit checks whose pipeline requests overlap
MaxInFlight == 2

\* seconds the clock runs for
MaxElapsed == 120

\* _window_seconds
Window == 60

\* check_general_limit, check_chat_limit, check_auth_limit: the key is
\* ratelimit:{kind}:{identifier}, and only the auth check is fail-closed
CheckKinds == {"general", "chat", "auth"}

\* how the pipeline request ends: the store takes it; post (unreachable,
\* timeout), raise_for_status (HTTP error) or json (body is not JSON)
\* raises; the body is an empty list; the last item is an error item
StoreOutcomes == {"ok", "raises", "empty_reply", "error_item"}

\* the parsed reply of the pipeline request: Raises when post,
\* raise_for_status or json raised, else the list of per-command items
PipelineReply(outcome, count) ==
  CASE outcome = "ok" ->
         <<[result |-> 0], [result |-> 1], [result |-> 1], [result |-> count]>>
    [] outcome = "empty_reply" -> <<>>
    [] outcome = "error_item" ->
         <<[result |-> 0], [result |-> 1], [result |-> 1], [error |-> "ERR"]>>
    [] OTHER -> Raises

\* _check_limit from the reply on: allowed iff count < limit
check_limit_strict(enabled, reply, limit, fail_closed) ==
  IF ~enabled THEN [allowed |-> TRUE, remaining |-> -1]
  ELSE IF reply = Raises
    THEN IF fail_closed THEN [allowed |-> FALSE, remaining |-> 0]
         ELSE [allowed |-> TRUE, remaining |-> -1]
  ELSE LET last == reply[Len(reply)]
           count == IF reply # <<>>
                      THEN IF "result" \in DOMAIN last THEN last.result ELSE 0
                      ELSE 0
       IN  [allowed |-> count < limit,
            remaining |-> IF limit - count > 0 THEN limit - count ELSE 0]

\* _check_limit from the reply on: (True, -1) when not enabled; the
\* fail policy when the request raised; else count is the result of the
\* last item (0 without one), allowed = count <= limit and
\* remaining = max(0, limit - count)
check_limit(enabled, reply, limit, fail_closed) ==
  IF ~enabled THEN [allowed |-> TRUE, remaining |-> -1]
  ELSE IF reply = Raises
    THEN IF fail_closed THEN [allowed |-> FALSE, remaining |-> 0]
         ELSE [allowed |-> TRUE, remaining |-> -1]
  ELSE LET last == reply[Len(reply)]
           count == IF reply # <<>>
                      THEN IF "result" \in DOMAIN last THEN last.result ELSE 0
                      ELSE 0
       IN  [allowed |-> count <= limit,
            remaining |-> IF limit - count > 0 THEN limit - count ELSE 0]

\* a check that was not made yet; pc counts the pipeline commands the
\* store has executed, from 1 for a request that was sent to 5 for a check
\* that has returned
NoCheck == [pc |-> 0, time |-> 0, count |-> -1, allowed |-> FALSE]

\* nothing returned yet
NoReturn ==
  [outcome |-> "none", contacted |-> FALSE, count |-> -1,
   allowed |-> FALSE, remaining |-> 0]

LimitIdle ==
  /\ r_has_auth = TRUE
  /\ r_enabled = FALSE
  /\ r_limit = 1
  /\ r_kind = "general"
  /\ r_now = Window
  /\ r_zset = {}
  /\ r_expiry = 0
  /\ r_checks = [c \in 1..MaxChecks |-> NoCheck]
  /\ r_ret = NoReturn

\* requests that share one conversation row
MaxOverlap == 2

\* a request that has not loaded the conversation
NoRequest == [pc |-> "idle", cur |-> from_dict(None), new |-> None]

OverlapIdle ==
  /\ x_row = None
  /\ x_req = [r \in 1..MaxOverlap |-> NoRequest]

Init ==
  /\ PipelineInit /\ CacheDown /\ UpdateIdle /\ CacheOpsIdle /\ OwnerInit
  /\ AppendIdle /\ LimitIdle /\ OverlapIdle

\* ------------------------------------------------------------------------
\* chat.py: ChatOrchestrator.process_chat_stream, one action per step
\* between two suspension points
\* ------------------------------------------------------------------------
\* an exception raised inside the try block reaches "except Exception as e"
Raise(step, text) ==
  /\ pc' = "except"
  /\ exc' = text
  /\ fault' = step

\* the last max_messages turns of the conversation, oldest first
LastTurns(msgs, n) ==
  IF Len(msgs) > n THEN SubSeq(msgs, Len(msgs) - n + 1, Len(msgs)) ELSE msgs

\* append_to_context(max_messages=50): the list is trimmed to its last 50
ContextCacheMax == 50

\* get_conversation_context: LRANGE key -max_messages -1
CachedContext(n) == LastTurns(cache_ctx, n)

\* where _load_context can take the context from: the cache when it is
\* available and the list is not empty, the database otherwise and when
\* the cache read fails (lrange then returns [])
ContextSources ==
  IF cache_up /\ cache_ctx # <<>> THEN {"cache", "db"} ELSE {"db"}

\* outcomes of the two gathered append_to_context calls: whether the
\* append of the user turn and of the assistant turn took effect, and in
\* which order the two concurrent requests reached the backend
AppendOutcomes ==
  IF cache_up
    THEN { [user |-> u, assistant |-> a, user_first |-> f] :
             u \in BOOLEAN, a \in BOOLEAN, f \in BOOLEAN }
    ELSE { [user |-> FALSE, assistant |-> FALSE, user_first |-> TRUE] }

\* the turns the gathered appends add to the cached list
AppendedTurns(o) ==
  LET u == IF o.user THEN <<"user">> ELSE <<>>
      a == IF o.assistant THEN <<"assistant">> ELSE <<>>
  IN  IF o.user_first THEN u \o a ELSE a \o u

\* the start event has been yielded
Started == events # <<>> /\ events[1].type = "start"

\* where a disconnect can stop the generator after start: parked at the
\* yield of start, of a chunk or thought, or of sentiment, or suspended in
\* an await (next chunk, a running task, the inline model call of
\* update_cumulative, the gathered cache calls)
SuspensionPoints ==
  {"setup", "struct_stream", "stream", "emit_done"}
    \cup (IF sentiment_task = Running THEN {"await_sentiment"} ELSE {})
    \cup (IF cumulative_task = Running
            \/ (cumulative_task = NoTask
                 /\ CallMade(current_state, message_sentiment, req.provider))
          THEN {"cumulative"} ELSE {})
    \cup (IF cache_up THEN {"cache_sync"} ELSE {})

\* a start test that ignores the count of the conversation
StartsCumulativeTaskAnyCount(provider, cs) == provider = "gemini"

\* the cumulative task is started for Gemini when count > 0
StartsCumulativeTask(provider, cs) == provider = "gemini" /\ cs.count > 0

\* number of non-terminal chunks yielded so far
BodyCount == Cardinality({i \in 1..Len(stream) : ~stream[i].is_final})

\* a loop body that takes the thought test the wrong way round
ForwardChunkInverted(chunk, idx) ==
  IF chunk.content
    THEN IF ~chunk.is_thought
      THEN /\ thoughts' = Append(thoughts, idx)
           /\ events' = Append(events, sse_event("thought", [content |-> idx]))
           /\ UNCHANGED full_response
      ELSE /\ full_response' = Append(full_response, idx)
           /\ events' = Append(events, sse_event("chunk", [content |-> idx]))
           /\ UNCHANGED thoughts
    ELSE UNCHANGED <<thoughts, full_response, events>>

\* a loop body that also adds the thoughts to the visible response
ForwardChunkMixed(chunk, idx) ==
  IF chunk.content
    THEN IF chunk.is_thought
      THEN /\ thoughts' = Append(thoughts, idx)
           /\ events' = Append(events, sse_event("thought", [content |-> idx]))
           /\ full_response' = Append(full_response, idx)
      ELSE /\ full_response' = Append(full_response, idx)
           /\ events' = Append(events, sse_event("chunk", [content |-> idx]))
           /\ UNCHANGED thoughts
    ELSE UNCHANGED <<thoughts, full_response, events>>

\* the loop body of both streams: a chunk with content is a thought or a chunk
ForwardChunk(chunk, idx) ==
  IF chunk.content
    THEN IF chunk.is_thought
      THEN /\ thoughts' = Append(thoughts, idx)
           /\ events' = Append(events, sse_event("thought", [content |-> idx]))
           /\ UNCHANGED full_response
      ELSE /\ full_response' = Append(full_response, idx)
           /\ events' = Append(events, sse_event("chunk", [content |-> idx]))
           /\ UNCHANGED thoughts
    ELSE UNCHANGED <<thoughts, full_response, events>>

\* message_sentiment.to_dict() if message_sentiment else None
DictOrNone(r) == IF IsNone(r) THEN None ELSE result_to_dict(r)

\* the type of the last event of the stream
LastType == IF events = <<>> THEN "none" ELSE events[Len(events)].type

\* a request arrives: the route calls process_chat_stream
Begin(p, m) ==
  /\ pc = "idle"
  /\ nDone + nErr < MaxRequests
  /\ req' = [provider |-> p, method |-> m]
  /\ pc' = "get_conv"
  /\ UNCHANGED <<exc, fault, events, stream, full_response, thoughts,
                 context, user_message, assistant_message, message_sentiment,
                 sentiment_task, cumulative_task, current_state, cumulative,
                 inc_call, conv, messages, session_ok, committed, cache_up,
                 cache_ctx, nDone, nErr, u_pc, u_in, u_out, k_pc, k_in,
                 k_out, conversations, updated_order, cache_kv, detail_task,
                 history_task, ret, nCalls, a_list, a_log, a_ttl, a_max, a_n,
                 a_ret, r_has_auth, r_enabled, r_limit, r_kind, r_now,
                 r_zset, r_expiry, r_checks, r_ret, x_row, x_req>>

\* _get_or_create_conversation: the conversation of the caller, or a new row
get_or_create_conversation ==
  /\ pc = "get_conv"
  /\ \/ /\ conv' = IF conv.exists THEN conv
                    ELSE [exists |-> TRUE, title |-> "None", sentiment_state |-> None]
        /\ pc' = "load_ctx"
        /\ UNCHANGED <<exc, fault, session_ok>>
     \/ /\ \E t \in ExcTexts : Raise("get_conv", t)
        /\ session_ok' = FALSE
        /\ UNCHANGED conv
  /\ UNCHANGED <<req, events, stream, full_response, thoughts, context,
                 user_message, assistant_message, message_sentiment,
                 sentiment_task, cumulative_task, current_state, cumulative,
                 inc_call, messages, committed, cache_up, cache_ctx, nDone,
                 nErr, u_pc, u_in, u_out, k_pc, k_in, k_out, conversations,
                 updated_order, cache_kv, detail_task, history_task, ret,
                 nCalls, a_list, a_log, a_ttl, a_max, a_n, a_ret, r_has_auth,
                 r_enabled, r_limit, r_kind, r_now, r_zset, r_expiry,
                 r_checks, r_ret, x_row, x_req>>

\* _load_context, then the title of a new conversation
load_context ==
  /\ pc = "load_ctx"
  /\ \/ /\ \E src \in ContextSources :
             context' = IF src = "cache" THEN CachedContext(ContextWindow)
                        ELSE LastTurns(messages, ContextWindow)
        /\ conv' = IF context' = <<>> /\ ~Truthy(conv.title)
                    THEN [conv EXCEPT !.title = "auto"] ELSE conv
        /\ pc' = "save_user"
        /\ UNCHANGED <<exc, fault, session_ok>>
     \/ /\ \E t \in ExcTexts : Raise("load_ctx", t)
        /\ session_ok' = FALSE
        /\ UNCHANGED <<context, conv>>
  /\ UNCHANGED <<req, events, stream, full_response, thoughts, user_message,
                 assistant_message, message_sentiment, sentiment_task,
                 cumulative_task, current_state, cumulative, inc_call,
                 messages, committed, cache_up, cache_ctx, nDone, nErr, u_pc,
                 u_in, u_out, k_pc, k_in, k_out, conversations,
                 updated_order, cache_kv, detail_task, history_task, ret,
                 nCalls, a_list, a_log, a_ttl, a_max, a_n, a_ret, r_has_auth,
                 r_enabled, r_limit, r_kind, r_now, r_zset, r_expiry,
                 r_checks, r_ret, x_row, x_req>>

\* db.add(user_message); flush; refresh; context.append
save_user_message ==
  /\ pc = "save_user"
  /\ \/ /\ messages' = Append(messages, "user")
        /\ user_message' = [kind |-> "message", id |-> Len(messages) + 1,
                            sentiment_data |-> None]
        /\ context' = Append(context, "user")
        /\ pc' = "emit_start"
        /\ UNCHANGED <<exc, fault, session_ok>>
     \/ /\ \E t \in ExcTexts : Raise("save_user", t)
        /\ session_ok' = FALSE
        /\ UNCHANGED <<messages, user_message, context>>
  /\ UNCHANGED <<req, events, stream, full_response, thoughts,
                 assistant_message, message_sentiment, sentiment_task,
                 cumulative_task, current_state, cumulative, inc_call, conv,
                 committed, cache_up, cache_ctx, nDone, nErr, u_pc, u_in,
                 u_out, k_pc, k_in, k_out, conversations, updated_order,
                 cache_kv, detail_task, history_task, ret, nCalls, a_list,
                 a_log, a_ttl, a_max, a_n, a_ret, r_has_auth, r_enabled,
                 r_limit, r_kind, r_now, r_zset, r_expiry, r_checks, r_ret,
                 x_row, x_req>>

\* yield sse_event("start", ...)
emit_start ==
  /\ pc = "emit_start"
  /\ events' = Append(events, sse_event("start", [message_id |-> user_message.id]))
  /\ pc' = "setup"
  /\ UNCHANGED <<req, exc, fault, stream, full_response, thoughts, context,
                 user_message, assistant_message, message_sentiment,
                 sentiment_task, cumulative_task, current_state, cumulative,
                 inc_call, conv, messages, session_ok, committed, cache_up,
                 cache_ctx, nDone, nErr, u_pc, u_in, u_out, k_pc, k_in,
                 k_out, conversations, updated_order, cache_kv, detail_task,
                 history_task, ret, nCalls, a_list, a_log, a_ttl, a_max, a_n,
                 a_ret, r_has_auth, r_enabled, r_limit, r_kind, r_now,
                 r_zset, r_expiry, r_checks, r_ret, x_row, x_req>>

\* get_adapter, current_state, and on the separate path the task creation
setup_stream ==
  /\ pc = "setup"
  /\ \/ /\ current_state' = from_dict(conv.sentiment_state)
        /\ IF req.method = "structured"
             THEN /\ pc' = "struct_stream"
                  /\ UNCHANGED <<sentiment_task, cumulative_task>>
             ELSE /\ sentiment_task' = Running
                  /\ cumulative_task' =
                       IF StartsCumulativeTask(req.provider, current_state')
                         THEN Running ELSE NoTask
                  /\ pc' = "stream"
        /\ UNCHANGED <<exc, fault>>
     \/ /\ \E t \in ExcTexts : Raise("adapter", t)
        /\ UNCHANGED <<current_state, sentiment_task, cumulative_task>>
  /\ UNCHANGED <<req, events, stream, full_response, thoughts, context,
                 user_message, assistant_message, message_sentiment,
                 cumulative, inc_call, conv, messages, session_ok, committed,
                 cache_up, cache_ctx, nDone, nErr, u_pc, u_in, u_out, k_pc,
                 k_in, k_out, conversations, updated_order, cache_kv,
                 detail_task, history_task, ret, nCalls, a_list, a_log,
                 a_ttl, a_max, a_n, a_ret, r_has_auth, r_enabled, r_limit,
                 r_kind, r_now, r_zset, r_expiry, r_checks, r_ret, x_row,
                 x_req>>

\* a structured loop that answers a failed stream with the separate path
structured_stream_falls_back ==
  /\ pc = "struct_stream"
  /\ \/ /\ BodyCount < MaxChunks
        /\ \E chunk \in BodyChunks :
             /\ stream' = Append(stream, chunk)
             /\ ForwardChunk(chunk, Len(stream) + 1)
        /\ UNCHANGED <<pc, message_sentiment, sentiment_task>>
     \/ /\ \E fs \in FinalSentiments :
             /\ stream' = Append(stream, FinalChunk)
             /\ ForwardChunk(FinalChunk, Len(stream) + 1)
             /\ message_sentiment' =
                  SentimentResult(RatOfInt(ScoreOrZero(fs.score)),
                                  OrElse(fs.label, "Neutral"),
                                  "structured", fs.emotion, "None")
        /\ pc' = "cumulative"
        /\ UNCHANGED sentiment_task
     \/ /\ sentiment_task' = Running
        /\ pc' = "stream"
        /\ UNCHANGED <<stream, thoughts, full_response, events, message_sentiment>>
  /\ UNCHANGED <<req, exc, fault, context, user_message, assistant_message,
                 cumulative_task, current_state, cumulative, inc_call, conv,
                 messages, session_ok, committed, cache_up, cache_ctx, nDone,
                 nErr, u_pc, u_in, u_out, k_pc, k_in, k_out, conversations,
                 updated_order, cache_kv, detail_task, history_task, ret,
                 nCalls, a_list, a_log, a_ttl, a_max, a_n, a_ret, r_has_auth,
                 r_enabled, r_limit, r_kind, r_now, r_zset, r_expiry,
                 r_checks, r_ret, x_row, x_req>>

\* async for struct_chunk in adapter.generate_structured_stream(...)
structured_stream ==
  /\ pc = "struct_stream"
  /\ \/ /\ BodyCount < MaxChunks
        /\ \E chunk \in BodyChunks :
             /\ stream' = Append(stream, chunk)
             /\ ForwardChunk(chunk, Len(stream) + 1)
        /\ UNCHANGED <<pc, exc, fault, message_sentiment>>
     \/ /\ \E fs \in FinalSentiments :
             /\ stream' = Append(stream, FinalChunk)
             /\ ForwardChunk(FinalChunk, Len(stream) + 1)
             /\ message_sentiment' =
                  SentimentResult(RatOfInt(ScoreOrZero(fs.score)),
                                  OrElse(fs.label, "Neutral"),
                                  "structured", fs.emotion, "None")
        /\ pc' = "cumulative"
        /\ UNCHANGED <<exc, fault>>
     \/ /\ \E t \in ExcTexts : Raise("stream", t)
        /\ UNCHANGED <<stream, thoughts, full_response, events, message_sentiment>>
  /\ UNCHANGED <<req, context, user_message, assistant_message,
                 sentiment_task, cumulative_task, current_state, cumulative,
                 inc_call, conv, messages, session_ok, committed, cache_up,
                 cache_ctx, nDone, nErr, u_pc, u_in, u_out, k_pc, k_in,
                 k_out, conversations, updated_order, cache_kv, detail_task,
                 history_task, ret, nCalls, a_list, a_log, a_ttl, a_max, a_n,
                 a_ret, r_has_auth, r_enabled, r_limit, r_kind, r_now,
                 r_zset, r_expiry, r_checks, r_ret, x_row, x_req>>

\* a stream loop that treats a raised exception as the end of the stream
separate_stream_swallow ==
  /\ pc = "stream"
  /\ \/ /\ BodyCount < MaxChunks
        /\ \E chunk \in BodyChunks :
             /\ stream' = Append(stream, chunk)
             /\ ForwardChunk(chunk, Len(stream) + 1)
        /\ UNCHANGED <<pc, exc, fault>>
     \/ /\ stream' = Append(stream, FinalChunk)
        /\ ForwardChunk(FinalChunk, Len(stream) + 1)
        /\ pc' = "await_sentiment"
        /\ UNCHANGED <<exc, fault>>
     \/ /\ \E t \in ExcTexts : exc' = t
        /\ fault' = "stream"
        /\ pc' = "await_sentiment"
        /\ UNCHANGED <<stream, thoughts, full_response, events>>
  /\ UNCHANGED <<req, context, user_message, assistant_message,
                 message_sentiment, sentiment_task, cumulative_task,
                 current_state, cumulative, inc_call, conv, messages,
                 session_ok, committed, cache_up, cache_ctx, nDone, nErr,
                 u_pc, u_in, u_out, k_pc, k_in, k_out, conversations,
                 updated_order, cache_kv, detail_task, history_task, ret,
                 nCalls, a_list, a_log, a_ttl, a_max, a_n, a_ret, r_has_auth,
                 r_enabled, r_limit, r_kind, r_now, r_zset, r_expiry,
                 r_checks, r_ret, x_row, x_req>>

\* async for chunk in adapter.generate_stream(...)
separate_stream ==
  /\ pc = "stream"
  /\ \/ /\ BodyCount < MaxChunks
        /\ \E chunk \in BodyChunks :
             /\ stream' = Append(stream, chunk)
             /\ ForwardChunk(chunk, Len(stream) + 1)
        /\ UNCHANGED <<pc, exc, fault>>
     \/ /\ stream' = Append(stream, FinalChunk)
        /\ ForwardChunk(FinalChunk, Len(stream) + 1)
        /\ pc' = "await_sentiment"
        /\ UNCHANGED <<exc, fault>>
     \/ /\ \E t \in ExcTexts : Raise("stream", t)
        /\ UNCHANGED <<stream, thoughts, full_response, events>>
  /\ UNCHANGED <<req, context, user_message, assistant_message,
                 message_sentiment, sentiment_task, cumulative_task,
                 current_state, cumulative, inc_call, conv, messages,
                 session_ok, committed, cache_up, cache_ctx, nDone, nErr,
                 u_pc, u_in, u_out, k_pc, k_in, k_out, conversations,
                 updated_order, cache_kv, detail_task, history_task, ret,
                 nCalls, a_list, a_log, a_ttl, a_max, a_n, a_ret, r_has_auth,
                 r_enabled, r_limit, r_kind, r_now, r_zset, r_expiry,
                 r_checks, r_ret, x_row, x_req>>

\* the "sentiment:message" task runs SentimentService.analyze to its end;
\* analyze raises when get_strategy rejects the method or the service fails
sentiment_task_completes ==
  /\ sentiment_task = Running
  /\ \/ \E r \in AnalyzeResults(req.method) : sentiment_task' = Done(r)
     \/ sentiment_task' = Failed
  /\ UNCHANGED <<pc, req, exc, fault, events, stream, full_response,
                 thoughts, context, user_message, assistant_message,
                 message_sentiment, cumulative_task, current_state,
                 cumulative, inc_call, conv, messages, session_ok, committed,
                 cache_up, cache_ctx, nDone, nErr, u_pc, u_in, u_out, k_pc,
                 k_in, k_out, conversations, updated_order, cache_kv,
                 detail_task, history_task, ret, nCalls, a_list, a_log,
                 a_ttl, a_max, a_n, a_ret, r_has_auth, r_enabled, r_limit,
                 r_kind, r_now, r_zset, r_expiry, r_checks, r_ret, x_row,
                 x_req>>

\* the "sentiment:cumulative" task runs update_cumulative with no message
\* sentiment; update absorbs the failure of its model call and does not raise
cumulative_task_completes ==
  /\ cumulative_task = Running
  /\ \E llm \in OutcomesFor(current_state, None, req.provider) :
       /\ cumulative_task' =
            Done(update_cumulative(current_state, None, req.provider, llm))
       /\ inc_call' = llm
  /\ UNCHANGED <<pc, req, exc, fault, events, stream, full_response,
                 thoughts, context, user_message, assistant_message,
                 message_sentiment, sentiment_task, current_state,
                 cumulative, conv, messages, session_ok, committed, cache_up,
                 cache_ctx, nDone, nErr, u_pc, u_in, u_out, k_pc, k_in,
                 k_out, conversations, updated_order, cache_kv, detail_task,
                 history_task, ret, nCalls, a_list, a_log, a_ttl, a_max, a_n,
                 a_ret, r_has_auth, r_enabled, r_limit, r_kind, r_now,
                 r_zset, r_expiry, r_checks, r_ret, x_row, x_req>>

\* an await of the sentiment task without the try around it
await_sentiment_unguarded ==
  /\ pc = "await_sentiment"
  /\ sentiment_task.st \in {"ok", "failed"}
  /\ IF sentiment_task.st = "ok"
       THEN /\ message_sentiment' = sentiment_task.val
            /\ pc' = "cumulative"
            /\ UNCHANGED <<exc, fault>>
       ELSE /\ \E t \in ExcTexts : Raise("sentiment", t)
            /\ UNCHANGED message_sentiment
  /\ UNCHANGED <<req, events, stream, full_response, thoughts, context,
                 user_message, assistant_message, sentiment_task,
                 cumulative_task, current_state, cumulative, inc_call, conv,
                 messages, session_ok, committed, cache_up, cache_ctx, nDone,
                 nErr, u_pc, u_in, u_out, k_pc, k_in, k_out, conversations,
                 updated_order, cache_kv, detail_task, history_task, ret,
                 nCalls, a_list, a_log, a_ttl, a_max, a_n, a_ret, r_has_auth,
                 r_enabled, r_limit, r_kind, r_now, r_zset, r_expiry,
                 r_checks, r_ret, x_row, x_req>>

\* message_sentiment = await sentiment_task, neutral when the task raised
await_sentiment ==
  /\ pc = "await_sentiment"
  /\ sentiment_task.st \in {"ok", "failed"}
  /\ message_sentiment' =
       IF sentiment_task.st = "ok" THEN sentiment_task.val ELSE neutral
  /\ pc' = "cumulative"
  /\ UNCHANGED <<req, exc, fault, events, stream, full_response, thoughts,
                 context, user_message, assistant_message, sentiment_task,
                 cumulative_task, current_state, cumulative, inc_call, conv,
                 messages, session_ok, committed, cache_up, cache_ctx, nDone,
                 nErr, u_pc, u_in, u_out, k_pc, k_in, k_out, conversations,
                 updated_order, cache_kv, detail_task, history_task, ret,
                 nCalls, a_list, a_log, a_ttl, a_max, a_n, a_ret, r_has_auth,
                 r_enabled, r_limit, r_kind, r_now, r_zset, r_expiry,
                 r_checks, r_ret, x_row, x_req>>

\* a reconciliation that already assigns the new state to the conversation
reconcile_cumulative_assigns ==
  /\ pc = "cumulative"
  /\ IF cumulative_task.st # "none"
       THEN /\ cumulative_task.st \in {"ok", "failed"}
            /\ IF cumulative_task.st = "ok"
                 THEN /\ cumulative' = cumulative_task.val
                      /\ UNCHANGED inc_call
                 ELSE \E llm \in OutcomesFor(current_state, message_sentiment,
                                             req.provider) :
                        /\ cumulative' = update_cumulative(current_state,
                               message_sentiment, req.provider, llm)
                        /\ inc_call' = llm
       ELSE \E llm \in OutcomesFor(current_state, message_sentiment, req.provider) :
              /\ cumulative' = update_cumulative(current_state, message_sentiment,
                                                 req.provider, llm)
              /\ inc_call' = llm
  /\ conv' = [conv EXCEPT !.sentiment_state = to_dict(cumulative'.state)]
  /\ pc' = "persist"
  /\ UNCHANGED <<req, exc, fault, events, stream, full_response, thoughts,
                 context, user_message, assistant_message, message_sentiment,
                 sentiment_task, cumulative_task, current_state, messages,
                 session_ok, committed, cache_up, cache_ctx, nDone, nErr,
                 u_pc, u_in, u_out, k_pc, k_in, k_out, conversations,
                 updated_order, cache_kv, detail_task, history_task, ret,
                 nCalls, a_list, a_log, a_ttl, a_max, a_n, a_ret, r_has_auth,
                 r_enabled, r_limit, r_kind, r_now, r_zset, r_expiry,
                 r_checks, r_ret, x_row, x_req>>

\* the cumulative sentiment: the awaited parallel task when one was started
\* (its except branch needs a task that raised), else update_cumulative now
reconcile_cumulative ==
  /\ pc = "cumulative"
  /\ IF cumulative_task.st # "none"
       THEN /\ cumulative_task.st \in {"ok", "failed"}
            /\ IF cumulative_task.st = "ok"
                 THEN /\ cumulative' = cumulative_task.val
                      /\ UNCHANGED inc_call
                 ELSE \E llm \in OutcomesFor(current_state, message_sentiment,
                                             req.provider) :
                        /\ cumulative' = update_cumulative(current_state,
                               message_sentiment, req.provider, llm)
                        /\ inc_call' = llm
       ELSE \E llm \in OutcomesFor(current_state, message_sentiment, req.provider) :
              /\ cumulative' = update_cumulative(current_state, message_sentiment,
                                                 req.provider, llm)
              /\ inc_call' = llm
  /\ pc' = "persist"
  /\ UNCHANGED <<req, exc, fault, events, stream, full_response, thoughts,
                 context, user_message, assistant_message, message_sentiment,
                 sentiment_task, cumulative_task, current_state, conv,
                 messages, session_ok, committed, cache_up, cache_ctx, nDone,
                 nErr, u_pc, u_in, u_out, k_pc, k_in, k_out, conversations,
                 updated_order, cache_kv, detail_task, history_task, ret,
                 nCalls, a_list, a_log, a_ttl, a_max, a_n, a_ret, r_has_auth,
                 r_enabled, r_limit, r_kind, r_now, r_zset, r_expiry,
                 r_checks, r_ret, x_row, x_req>>

\* sentiment_state, sentiment_data, db.add(assistant_message), flush
persist ==
  /\ pc = "persist"
  /\ conv' = [conv EXCEPT !.sentiment_state = to_dict(cumulative.state)]
  /\ user_message' = [user_message EXCEPT !.sentiment_data =
                        [message |-> DictOrNone(message_sentiment),
                         cumulative |-> DictOrNone(cumulative.result)]]
  /\ assistant_message' = [kind |-> "message", content |-> full_response,
                           thoughts |-> IF thoughts # <<>> THEN thoughts ELSE None,
                           provider |-> req.provider]
  /\ \/ /\ messages' = Append(messages, "assistant")
        /\ pc' = "cache_sync"
        /\ UNCHANGED <<exc, fault, session_ok>>
     \/ /\ \E t \in ExcTexts : Raise("flush", t)
        /\ session_ok' = FALSE
        /\ UNCHANGED messages
  /\ UNCHANGED <<req, events, stream, full_response, thoughts, context,
                 message_sentiment, sentiment_task, cumulative_task,
                 current_state, cumulative, inc_call, committed, cache_up,
                 cache_ctx, nDone, nErr, u_pc, u_in, u_out, k_pc, k_in,
                 k_out, conversations, updated_order, cache_kv, detail_task,
                 history_task, ret, nCalls, a_list, a_log, a_ttl, a_max, a_n,
                 a_ret, r_has_auth, r_enabled, r_limit, r_kind, r_now,
                 r_zset, r_expiry, r_checks, r_ret, x_row, x_req>>

\* cache calls whose failure is raised into the pipeline
cache_sync_unguarded ==
  /\ pc = "cache_sync"
  /\ \E o \in AppendOutcomes :
       IF cache_up /\ ~(o.user /\ o.assistant)
         THEN /\ \E t \in ExcTexts : Raise("cache", t)
              /\ UNCHANGED cache_ctx
         ELSE /\ cache_ctx' = LastTurns(cache_ctx \o AppendedTurns(o), ContextCacheMax)
              /\ pc' = "emit_sentiment"
              /\ UNCHANGED <<exc, fault>>
  /\ UNCHANGED <<req, events, stream, full_response, thoughts, context,
                 user_message, assistant_message, message_sentiment,
                 sentiment_task, cumulative_task, current_state, cumulative,
                 inc_call, conv, messages, session_ok, committed, cache_up,
                 nDone, nErr, u_pc, u_in, u_out, k_pc, k_in, k_out,
                 conversations, updated_order, cache_kv, detail_task,
                 history_task, ret, nCalls, a_list, a_log, a_ttl, a_max, a_n,
                 a_ret, r_has_auth, r_enabled, r_limit, r_kind, r_now,
                 r_zset, r_expiry, r_checks, r_ret, x_row, x_req>>

\* if is_available: the two append_to_context calls and invalidate_user_history
\* gathered with return_exceptions=True (each call catches its own failure
\* and returns False), then the completion log
cache_sync ==
  /\ pc = "cache_sync"
  /\ \E o \in AppendOutcomes :
       cache_ctx' = LastTurns(cache_ctx \o AppendedTurns(o), ContextCacheMax)
  /\ pc' = "emit_sentiment"
  /\ UNCHANGED <<req, exc, fault, events, stream, full_response, thoughts,
                 context, user_message, assistant_message, message_sentiment,
                 sentiment_task, cumulative_task, current_state, cumulative,
                 inc_call, conv, messages, session_ok, committed, cache_up,
                 nDone, nErr, u_pc, u_in, u_out, k_pc, k_in, k_out,
                 conversations, updated_order, cache_kv, detail_task,
                 history_task, ret, nCalls, a_list, a_log, a_ttl, a_max, a_n,
                 a_ret, r_has_auth, r_enabled, r_limit, r_kind, r_now,
                 r_zset, r_expiry, r_checks, r_ret, x_row, x_req>>

\* yield sse_event("sentiment", ...)
emit_sentiment ==
  /\ pc = "emit_sentiment"
  /\ events' = Append(events, sse_event("sentiment",
       [message |-> sentiment_stream_payload(message_sentiment),
        cumulative |-> sentiment_stream_payload(cumulative.result)]))
  /\ pc' = "emit_done"
  /\ UNCHANGED <<req, exc, fault, stream, full_response, thoughts, context,
                 user_message, assistant_message, message_sentiment,
                 sentiment_task, cumulative_task, current_state, cumulative,
                 inc_call, conv, messages, session_ok, committed, cache_up,
                 cache_ctx, nDone, nErr, u_pc, u_in, u_out, k_pc, k_in,
                 k_out, conversations, updated_order, cache_kv, detail_task,
                 history_task, ret, nCalls, a_list, a_log, a_ttl, a_max, a_n,
                 a_ret, r_has_auth, r_enabled, r_limit, r_kind, r_now,
                 r_zset, r_expiry, r_checks, r_ret, x_row, x_req>>

\* a generator that returns after the sentiment event
emit_done_skipped ==
  /\ pc = "emit_done"
  /\ pc' = "closed"
  /\ UNCHANGED <<req, exc, fault, events, stream, full_response, thoughts,
                 context, user_message, assistant_message, message_sentiment,
                 sentiment_task, cumulative_task, current_state, cumulative,
                 inc_call, conv, messages, session_ok, committed, cache_up,
                 cache_ctx, nDone, nErr, u_pc, u_in, u_out, k_pc, k_in,
                 k_out, conversations, updated_order, cache_kv, detail_task,
                 history_task, ret, nCalls, a_list, a_log, a_ttl, a_max, a_n,
                 a_ret, r_has_auth, r_enabled, r_limit, r_kind, r_now,
                 r_zset, r_expiry, r_checks, r_ret, x_row, x_req>>

\* yield sse_event("done", {"finish_reason": "stop"})
emit_done ==
  /\ pc = "emit_done"
  /\ events' = Append(events, sse_event("done", [finish_reason |-> "stop"]))
  /\ pc' = "closed"
  /\ UNCHANGED <<req, exc, fault, stream, full_response, thoughts, context,
                 user_message, assistant_message, message_sentiment,
                 sentiment_task, cumulative_task, current_state, cumulative,
                 inc_call, conv, messages, session_ok, committed, cache_up,
                 cache_ctx, nDone, nErr, u_pc, u_in, u_out, k_pc, k_in,
                 k_out, conversations, updated_order, cache_kv, detail_task,
                 history_task, ret, nCalls, a_list, a_log, a_ttl, a_max, a_n,
                 a_ret, r_has_auth, r_enabled, r_limit, r_kind, r_now,
                 r_zset, r_expiry, r_checks, r_ret, x_row, x_req>>

\* a handler that logs the exception and yields nothing
handle_exception_silent ==
  /\ pc = "except"
  /\ pc' = "closed"
  /\ UNCHANGED <<req, exc, fault, events, stream, full_response, thoughts,
                 context, user_message, assistant_message, message_sentiment,
                 sentiment_task, cumulative_task, current_state, cumulative,
                 inc_call, conv, messages, session_ok, committed, cache_up,
                 cache_ctx, nDone, nErr, u_pc, u_in, u_out, k_pc, k_in,
                 k_out, conversations, updated_order, cache_kv, detail_task,
                 history_task, ret, nCalls, a_list, a_log, a_ttl, a_max, a_n,
                 a_ret, r_has_auth, r_enabled, r_limit, r_kind, r_now,
                 r_zset, r_expiry, r_checks, r_ret, x_row, x_req>>

\* except Exception as e: yield sse_event("error", {"message": str(e)})
handle_exception ==
  /\ pc = "except"
  /\ events' = Append(events, sse_event("error", [message |-> exc]))
  /\ pc' = "closed"
  /\ UNCHANGED <<req, exc, fault, stream, full_response, thoughts, context,
                 user_message, assistant_message, message_sentiment,
                 sentiment_task, cumulative_task, current_state, cumulative,
                 inc_call, conv, messages, session_ok, committed, cache_up,
                 cache_ctx, nDone, nErr, u_pc, u_in, u_out, k_pc, k_in,
                 k_out, conversations, updated_order, cache_kv, detail_task,
                 history_task, ret, nCalls, a_list, a_log, a_ttl, a_max, a_n,
                 a_ret, r_has_auth, r_enabled, r_limit, r_kind, r_now,
                 r_zset, r_expiry, r_checks, r_ret, x_row, x_req>>

\* a session that rolls back whenever the stream ended with error
get_db_rollback_on_error ==
  /\ pc = "closed"
  /\ IF session_ok /\ LastType # "error"
       THEN /\ committed' = [conv |-> conv, messages |-> messages]
            /\ UNCHANGED <<conv, messages>>
       ELSE /\ conv' = committed.conv
            /\ messages' = committed.messages
            /\ UNCHANGED committed
  /\ session_ok' = TRUE
  /\ nDone' = IF LastType = "done" THEN nDone + 1 ELSE nDone
  /\ nErr' = IF LastType = "done" THEN nErr ELSE nErr + 1
  /\ pc' = "idle"
  /\ ClearLocals
  /\ UNCHANGED <<cache_up, cache_ctx, u_pc, u_in, u_out, k_pc, k_in, k_out,
                 conversations, updated_order, cache_kv, detail_task,
                 history_task, ret, nCalls, a_list, a_log, a_ttl, a_max, a_n,
                 a_ret, r_has_auth, r_enabled, r_limit, r_kind, r_now,
                 r_zset, r_expiry, r_checks, r_ret, x_row, x_req>>

\* get_db after the generator has returned: commit, and rollback when the
\* commit raises because a statement of the session had failed
get_db ==
  /\ pc = "closed"
  /\ IF session_ok
       THEN /\ committed' = [conv |-> conv, messages |-> messages]
            /\ UNCHANGED <<conv, messages>>
       ELSE /\ conv' = committed.conv
            /\ messages' = committed.messages
            /\ UNCHANGED committed
  /\ session_ok' = TRUE
  /\ nDone' = IF LastType = "done" THEN nDone + 1 ELSE nDone
  /\ nErr' = IF LastType = "done" THEN nErr ELSE nErr + 1
  /\ pc' = "idle"
  /\ ClearLocals
  /\ UNCHANGED <<cache_up, cache_ctx, u_pc, u_in, u_out, k_pc, k_in, k_out,
                 conversations, updated_order, cache_kv, detail_task,
                 history_task, ret, nCalls, a_list, a_log, a_ttl, a_max, a_n,
                 a_ret, r_has_auth, r_enabled, r_limit, r_kind, r_now,
                 r_zset, r_expiry, r_checks, r_ret, x_row, x_req>>

\* the client goes away: the generator is stopped where it is suspended by
\* CancelledError or GeneratorExit, which "except Exception" does not catch;
\* a task the generator is awaiting at that moment is cancelled with it
client_disconnects ==
  /\ Started
  /\ pc \in SuspensionPoints
  /\ sentiment_task' = IF pc = "await_sentiment" THEN Cancelled ELSE sentiment_task
  /\ cumulative_task' = IF pc = "cumulative" /\ cumulative_task = Running
                          THEN Cancelled ELSE cumulative_task
  /\ pc' = "abandoned"
  /\ UNCHANGED <<req, exc, fault, events, stream, full_response, thoughts,
                 context, user_message, assistant_message, message_sentiment,
                 current_state, cumulative, inc_call, conv, messages,
                 session_ok, committed, cache_up, cache_ctx, nDone, nErr,
                 u_pc, u_in, u_out, k_pc, k_in, k_out, conversations,
                 updated_order, cache_kv, detail_task, history_task, ret,
                 nCalls, a_list, a_log, a_ttl, a_max, a_n, a_ret, r_has_auth,
                 r_enabled, r_limit, r_kind, r_now, r_zset, r_expiry,
                 r_checks, r_ret, x_row, x_req>>

\* get_db after an abandoned stream: commit when the response returns
\* normally after the cancellation, rollback when the disconnect reaches
\* get_db as an exception
get_db_abandoned ==
  /\ pc = "abandoned"
  /\ \E outcome \in {"commit", "rollback"} :
       IF outcome = "commit" /\ session_ok
         THEN /\ committed' = [conv |-> conv, messages |-> messages]
              /\ UNCHANGED <<conv, messages>>
         ELSE /\ conv' = committed.conv
              /\ messages' = committed.messages
              /\ UNCHANGED committed
  /\ session_ok' = TRUE
  /\ nErr' = nErr + 1
  /\ pc' = "idle"
  /\ ClearLocals
  /\ UNCHANGED <<cache_up, cache_ctx, nDone, u_pc, u_in, u_out, k_pc, k_in,
                 k_out, conversations, updated_order, cache_kv, detail_task,
                 history_task, ret, nCalls, a_list, a_log, a_ttl, a_max, a_n,
                 a_ret, r_has_auth, r_enabled, r_limit, r_kind, r_now,
                 r_zset, r_expiry, r_checks, r_ret, x_row, x_req>>

\* the context key reaches its TTL (TTL_CONVERSATION_CONTEXT) or is evicted
expire_context ==
  /\ cache_up
  /\ cache_ctx # <<>>
  /\ cache_ctx' = <<>>
  /\ UNCHANGED <<pc, req, exc, fault, events, stream, full_response,
                 thoughts, context, user_message, assistant_message,
                 message_sentiment, sentiment_task, cumulative_task,
                 current_state, cumulative, inc_call, conv, messages,
                 session_ok, committed, cache_up, nDone, nErr, u_pc, u_in,
                 u_out, k_pc, k_in, k_out, conversations, updated_order,
                 cache_kv, detail_task, history_task, ret, nCalls, a_list,
                 a_log, a_ttl, a_max, a_n, a_ret, r_has_auth, r_enabled,
                 r_limit, r_kind, r_now, r_zset, r_expiry, r_checks, r_ret,
                 x_row, x_req>>

\* a cache hit returned without the ownership test
get_conversation_detail_unverified(u, cid, offset) ==
  /\ nCalls < MaxCalls
  /\ nCalls' = nCalls + 1
  /\ \E read \in ClientCallOutcomes :
       LET use_cache == offset = 0
           cached == IF use_cache /\ cache_up /\ read = "ok"
                       THEN cache_kv[DetailKey(cid, DefaultLimit)] ELSE None
           row == FindConversation(u, cid)
           detail == Detail(cid, row)
           result(v) == [op |-> "get_conversation_detail", user |-> u,
                         cid |-> cid, offset |-> offset, value |-> v]
       IN  IF cached # None
             THEN /\ ret' = result(cached)
                  /\ UNCHANGED detail_task
           ELSE IF row = None
             THEN /\ ret' = result(None)
                  /\ UNCHANGED detail_task
           ELSE /\ ret' = result(detail)
                /\ detail_task' = IF use_cache /\ cache_up THEN detail
                                  ELSE detail_task
  /\ UNCHANGED <<pc, req, exc, fault, events, stream, full_response,
                 thoughts, context, user_message, assistant_message,
                 message_sentiment, sentiment_task, cumulative_task,
                 current_state, cumulative, inc_call, conv, messages,
                 session_ok, committed, cache_up, cache_ctx, nDone, nErr,
                 u_pc, u_in, u_out, k_pc, k_in, k_out, conversations,
                 updated_order, cache_kv, history_task, a_list, a_log, a_ttl,
                 a_max, a_n, a_ret, r_has_auth, r_enabled, r_limit, r_kind,
                 r_now, r_zset, r_expiry, r_checks, r_ret, x_row, x_req>>

\* ChatOrchestrator.get_conversation_detail: the cached first page when its
\* user_id is the caller's, else the caller's row from the database and a
\* fire-and-forget write of the detail; a write still pending is superseded,
\* which is one of its outcomes (its client call raising)
get_conversation_detail(u, cid, offset) ==
  /\ nCalls < MaxCalls
  /\ nCalls' = nCalls + 1
  /\ \E read \in ClientCallOutcomes :
       LET use_cache == offset = 0
           cached == IF use_cache /\ cache_up /\ read = "ok"
                       THEN cache_kv[DetailKey(cid, DefaultLimit)] ELSE None
           row == FindConversation(u, cid)
           detail == Detail(cid, row)
           result(v) == [op |-> "get_conversation_detail", user |-> u,
                         cid |-> cid, offset |-> offset, value |-> v]
       IN  IF cached # None
             THEN /\ ret' = result(IF cached.user_id # u THEN None ELSE cached)
                  /\ UNCHANGED detail_task
           ELSE IF row = None
             THEN /\ ret' = result(None)
                  /\ UNCHANGED detail_task
           ELSE /\ ret' = result(detail)
                /\ detail_task' = IF use_cache /\ cache_up THEN detail
                                  ELSE detail_task
  /\ UNCHANGED <<pc, req, exc, fault, events, stream, full_response,
                 thoughts, context, user_message, assistant_message,
                 message_sentiment, sentiment_task, cumulative_task,
                 current_state, cumulative, inc_call, conv, messages,
                 session_ok, committed, cache_up, cache_ctx, nDone, nErr,
                 u_pc, u_in, u_out, k_pc, k_in, k_out, conversations,
                 updated_order, cache_kv, history_task, a_list, a_log, a_ttl,
                 a_max, a_n, a_ret, r_has_auth, r_enabled, r_limit, r_kind,
                 r_now, r_zset, r_expiry, r_checks, r_ret, x_row, x_req>>

\* the tracked task runs set_conversation_detail: the detail is stored or the call fails
set_conversation_detail_task ==
  /\ detail_task # None
  /\ \E write \in ClientCallOutcomes :
       cache_kv' = IF write = "ok"
                     THEN [cache_kv EXCEPT
                             ![DetailKey(detail_task.id, DefaultLimit)] = detail_task]
                     ELSE cache_kv
  /\ detail_task' = None
  /\ UNCHANGED <<pc, req, exc, fault, events, stream, full_response,
                 thoughts, context, user_message, assistant_message,
                 message_sentiment, sentiment_task, cumulative_task,
                 current_state, cumulative, inc_call, conv, messages,
                 session_ok, committed, cache_up, cache_ctx, nDone, nErr,
                 u_pc, u_in, u_out, k_pc, k_in, k_out, conversations,
                 updated_order, history_task, ret, nCalls, a_list, a_log,
                 a_ttl, a_max, a_n, a_ret, r_has_auth, r_enabled, r_limit,
                 r_kind, r_now, r_zset, r_expiry, r_checks, r_ret, x_row,
                 x_req>>

\* ChatOrchestrator.rename_conversation and the commit of get_db: the title of
\* the caller's row, then invalidate_conversation and invalidate_user_history
rename_conversation(u, cid, title) ==
  /\ nCalls < MaxCalls
  /\ nCalls' = nCalls + 1
  /\ LET row == FindConversation(u, cid)
         result(v, hist) ==
           [op |-> "rename_conversation", user |-> u, cid |-> cid,
            title |-> title, ok |-> v, history_call |-> hist,
            had_history |-> cache_kv[HistoryKey(u)] # None]
     IN  IF row = None
           THEN /\ ret' = result(FALSE, "none")
                /\ UNCHANGED <<conversations, updated_order, cache_kv>>
           ELSE /\ conversations' = [conversations EXCEPT ![cid].title = title]
                /\ updated_order' = IF row.title # title
                                      THEN Touch(updated_order, u, cid)
                                      ELSE updated_order
                /\ \E inv \in ClientCallOutcomes, hist \in ClientCallOutcomes :
                     /\ cache_kv' =
                          IF cache_up
                            THEN invalidate_user_history(
                                   [k \in CacheKeys |->
                                      IF inv = "ok" /\ k \in InvalidatedKeys(cid)
                                        THEN None ELSE cache_kv[k]], u, hist)
                            ELSE cache_kv
                     /\ ret' = result(TRUE, IF cache_up THEN hist ELSE "none")
  /\ UNCHANGED <<pc, req, exc, fault, events, stream, full_response,
                 thoughts, context, user_message, assistant_message,
                 message_sentiment, sentiment_task, cumulative_task,
                 current_state, cumulative, inc_call, conv, messages,
                 session_ok, committed, cache_up, cache_ctx, nDone, nErr,
                 u_pc, u_in, u_out, k_pc, k_in, k_out, detail_task,
                 history_task, a_list, a_log, a_ttl, a_max, a_n, a_ret,
                 r_has_auth, r_enabled, r_limit, r_kind, r_now, r_zset,
                 r_expiry, r_checks, r_ret, x_row, x_req>>

\* ChatOrchestrator.delete_conversation and the commit of get_db: the caller's
\* row is deleted, then invalidate_conversation and invalidate_user_history
delete_conversation(u, cid) ==
  /\ nCalls < MaxCalls
  /\ nCalls' = nCalls + 1
  /\ LET row == FindConversation(u, cid)
         result(v, hist) ==
           [op |-> "delete_conversation", user |-> u, cid |-> cid,
            ok |-> v, history_call |-> hist,
            had_history |-> cache_kv[HistoryKey(u)] # None]
     IN  IF row = None
           THEN /\ ret' = result(FALSE, "none")
                /\ UNCHANGED <<conversations, updated_order, cache_kv>>
           ELSE /\ conversations' = [conversations EXCEPT ![cid].state = "deleted"]
                /\ updated_order' = Forget(updated_order, u, {cid})
                /\ \E inv \in ClientCallOutcomes, hist \in ClientCallOutcomes :
                     /\ cache_kv' =
                          IF cache_up
                            THEN invalidate_user_history(
                                   [k \in CacheKeys |->
                                      IF inv = "ok" /\ k \in InvalidatedKeys(cid)
                                        THEN None ELSE cache_kv[k]], u, hist)
                            ELSE cache_kv
                     /\ ret' = result(TRUE, IF cache_up THEN hist ELSE "none")
  /\ UNCHANGED <<pc, req, exc, fault, events, stream, full_response,
                 thoughts, context, user_message, assistant_message,
                 message_sentiment, sentiment_task, cumulative_task,
                 current_state, cumulative, inc_call, conv, messages,
                 session_ok, committed, cache_up, cache_ctx, nDone, nErr,
                 u_pc, u_in, u_out, k_pc, k_in, k_out, detail_task,
                 history_task, a_list, a_log, a_ttl, a_max, a_n, a_ret,
                 r_has_auth, r_enabled, r_limit, r_kind, r_now, r_zset,
                 r_expiry, r_checks, r_ret, x_row, x_req>>

\* ChatOrchestrator.delete_all_conversations and the commit of get_db: every
\* row of the caller is deleted, then invalidate_conversation for each id and
\* invalidate_user_history
delete_all_conversations(u) ==
  /\ nCalls < MaxCalls
  /\ nCalls' = nCalls + 1
  /\ LET conv_ids == { c \in ConvIds : FindConversation(u, c) # None }
     IN  /\ conversations' =
              [c \in ConvIds |->
                 IF c \in conv_ids
                   THEN [conversations[c] EXCEPT !.state = "deleted"]
                   ELSE conversations[c]]
         /\ updated_order' = Forget(updated_order, u, conv_ids)
         /\ \E inv \in ClientCallOutcomes, hist \in ClientCallOutcomes :
              /\ cache_kv' =
                   IF cache_up
                     THEN invalidate_user_history(
                            [k \in CacheKeys |->
                               IF inv = "ok" /\ \E c \in conv_ids :
                                                  k \in InvalidatedKeys(c)
                                 THEN None ELSE cache_kv[k]], u, hist)
                     ELSE cache_kv
              /\ ret' = [op |-> "delete_all_conversations", user |-> u, cid |-> 0,
                         count |-> Cardinality(conv_ids),
                         history_call |-> IF cache_up THEN hist ELSE "none",
                         had_history |-> cache_kv[HistoryKey(u)] # None]
  /\ UNCHANGED <<pc, req, exc, fault, events, stream, full_response,
                 thoughts, context, user_message, assistant_message,
                 message_sentiment, sentiment_task, cumulative_task,
                 current_state, cumulative, inc_call, conv, messages,
                 session_ok, committed, cache_up, cache_ctx, nDone, nErr,
                 u_pc, u_in, u_out, k_pc, k_in, k_out, detail_task,
                 history_task, a_list, a_log, a_ttl, a_max, a_n, a_ret,
                 r_has_auth, r_enabled, r_limit, r_kind, r_now, r_zset,
                 r_expiry, r_checks, r_ret, x_row, x_req>>

\* ChatOrchestrator.get_conversation_history: the first `limit` items of the
\* cached sorted set, latest first, else the listing from the database and a
\* fire-and-forget write of it; a write still pending is superseded, which is
\* one of its outcomes
get_conversation_history(u, limit) ==
  /\ nCalls < MaxCalls
  /\ nCalls' = nCalls + 1
  /\ \E read \in ClientCallOutcomes :
       LET cached == IF cache_up /\ read = "ok"
                       THEN cache_kv[HistoryKey(u)] ELSE None
           rows == Listing(u, limit)
           result(l) == [op |-> "get_conversation_history", user |-> u,
                         cid |-> 0, limit |-> limit, items |-> l]
       IN  IF cached # None
             THEN /\ ret' = result(FirstN(cached.items, limit))
                  /\ UNCHANGED history_task
             ELSE /\ ret' = result(rows)
                  /\ history_task' = IF cache_up
                                       THEN [user_id |-> u, items |-> rows]
                                       ELSE history_task
  /\ UNCHANGED <<pc, req, exc, fault, events, stream, full_response,
                 thoughts, context, user_message, assistant_message,
                 message_sentiment, sentiment_task, cumulative_task,
                 current_state, cumulative, inc_call, conv, messages,
                 session_ok, committed, cache_up, cache_ctx, nDone, nErr,
                 u_pc, u_in, u_out, k_pc, k_in, k_out, conversations,
                 updated_order, cache_kv, detail_task, a_list, a_log, a_ttl,
                 a_max, a_n, a_ret, r_has_auth, r_enabled, r_limit, r_kind,
                 r_now, r_zset, r_expiry, r_checks, r_ret, x_row, x_req>>

\* the tracked task runs set_conversation_history: delete, then zadd and
\* expire when the listing is not empty; a call that raises leaves the entry
\* as it was or deleted
set_conversation_history_task ==
  /\ history_task # None
  /\ LET key == HistoryKey(history_task.user_id)
         cleared == [cache_kv EXCEPT ![key] = None]
         stored == [cache_kv EXCEPT ![key] = history_task]
     IN  \E write \in ClientCallOutcomes :
           IF write = "ok"
             THEN cache_kv' = IF history_task.items = <<>> THEN cleared ELSE stored
             ELSE cache_kv' \in {cache_kv, cleared}
  /\ history_task' = None
  /\ UNCHANGED <<pc, req, exc, fault, events, stream, full_response,
                 thoughts, context, user_message, assistant_message,
                 message_sentiment, sentiment_task, cumulative_task,
                 current_state, cumulative, inc_call, conv, messages,
                 session_ok, committed, cache_up, cache_ctx, nDone, nErr,
                 u_pc, u_in, u_out, k_pc, k_in, k_out, conversations,
                 updated_order, detail_task, ret, nCalls, a_list, a_log,
                 a_ttl, a_max, a_n, a_ret, r_has_auth, r_enabled, r_limit,
                 r_kind, r_now, r_zset, r_expiry, r_checks, r_ret, x_row,
                 x_req>>

\* a request that is refused when the id it names is not the caller's
stream_chat_not_found(u, conversation_id) ==
  /\ nCalls < MaxCalls
  /\ nCalls' = nCalls + 1
  /\ LET found == IF conversation_id # 0
                    THEN FindConversation(u, conversation_id) ELSE None
         fresh == FreshIds \ {conversation_id}
         new == CHOOSE c \in fresh : \A d \in fresh : c <= d
         result(c, created, ev, ending, hist) ==
           [op |-> "stream_chat", user |-> u, cid |-> conversation_id,
            conversation |-> c, created |-> created, events |-> ev,
            ending |-> ending, history_call |-> hist,
            had_history |-> cache_kv[HistoryKey(u)] # None]
         finish(c, created) ==
           \E ending \in {"done", "error"}, hist \in ClientCallOutcomes :
             LET synced == ending = "done" /\ cache_up
             IN  /\ updated_order' = IF created \/ ending = "done"
                                       THEN Touch(updated_order, u, c)
                                       ELSE updated_order
                 /\ cache_kv' = IF synced
                                  THEN invalidate_user_history(cache_kv, u, hist)
                                  ELSE cache_kv
                 /\ ret' = result(c, created,
                       <<sse_event("start", [conversation_id |-> c])>>,
                       ending, IF synced THEN hist ELSE "none")
     IN  \/ IF found # None
              THEN /\ finish(conversation_id, FALSE)
                   /\ UNCHANGED conversations
            ELSE IF conversation_id # 0
              THEN /\ ret' = result(0, FALSE, <<>>, "error", "none")
                   /\ UNCHANGED <<conversations, updated_order, cache_kv>>
            ELSE /\ fresh # {}
                 /\ conversations' = [conversations EXCEPT ![new] = Row(u, AutoTitle)]
                 /\ finish(new, TRUE)
         \/ /\ \E t \in ExcTexts :
                 ret' = result(0, FALSE, <<sse_event("error", [message |-> t])>>,
                               "error", "none")
            /\ UNCHANGED <<conversations, updated_order, cache_kv>>
  /\ UNCHANGED <<pc, req, exc, fault, events, stream, full_response,
                 thoughts, context, user_message, assistant_message,
                 message_sentiment, sentiment_task, cumulative_task,
                 current_state, cumulative, inc_call, conv, messages,
                 session_ok, committed, cache_up, cache_ctx, nDone, nErr,
                 u_pc, u_in, u_out, k_pc, k_in, k_out, detail_task,
                 history_task, a_list, a_log, a_ttl, a_max, a_n, a_ret,
                 r_has_auth, r_enabled, r_limit, r_kind, r_now, r_zset,
                 r_expiry, r_checks, r_ret, x_row, x_req>>

\* a chat request: _get_or_create_conversation returns the caller's row with
\* that id or a new row of the caller under an id of the database's choosing,
\* the title of a new conversation is set, and start carries the id of the
\* row; the request then ends with done, after the update of the row
\* (onupdate of updated_at) and invalidate_user_history, or with error; when a database call raises before start, the only event is
\* error and nothing is committed
stream_chat(u, conversation_id) ==
  /\ nCalls < MaxCalls
  /\ nCalls' = nCalls + 1
  /\ LET found == IF conversation_id # 0
                    THEN FindConversation(u, conversation_id) ELSE None
         fresh == FreshIds \ {conversation_id}
         new == CHOOSE c \in fresh : \A d \in fresh : c <= d
         result(c, created, ev, ending, hist) ==
           [op |-> "stream_chat", user |-> u, cid |-> conversation_id,
            conversation |-> c, created |-> created, events |-> ev,
            ending |-> ending, history_call |-> hist,
            had_history |-> cache_kv[HistoryKey(u)] # None]
         finish(c, created) ==
           \E ending \in {"done", "error"}, hist \in ClientCallOutcomes :
             LET synced == ending = "done" /\ cache_up
             IN  /\ updated_order' = IF created \/ ending = "done"
                                       THEN Touch(updated_order, u, c)
                                       ELSE updated_order
                 /\ cache_kv' = IF synced
                                  THEN invalidate_user_history(cache_kv, u, hist)
                                  ELSE cache_kv
                 /\ ret' = result(c, created,
                       <<sse_event("start", [conversation_id |-> c])>>,
                       ending, IF synced THEN hist ELSE "none")
     IN  \/ IF found # None
              THEN /\ finish(conversation_id, FALSE)
                   /\ UNCHANGED conversations
            ELSE /\ fresh # {}
                 /\ conversations' = [conversations EXCEPT ![new] = Row(u, AutoTitle)]
                 /\ finish(new, TRUE)
         \/ /\ \E t \in ExcTexts :
                 ret' = result(0, FALSE, <<sse_event("error", [message |-> t])>>,
                               "error", "none")
            /\ UNCHANGED <<conversations, updated_order, cache_kv>>
  /\ UNCHANGED <<pc, req, exc, fault, events, stream, full_response,
                 thoughts, context, user_message, assistant_message,
                 message_sentiment, sentiment_task, cumulative_task,
                 current_state, cumulative, inc_call, conv, messages,
                 session_ok, committed, cache_up, cache_ctx, nDone, nErr,
                 u_pc, u_in, u_out, k_pc, k_in, k_out, detail_task,
                 history_task, a_list, a_log, a_ttl, a_max, a_n, a_ret,
                 r_has_auth, r_enabled, r_limit, r_kind, r_now, r_zset,
                 r_expiry, r_checks, r_ret, x_row, x_req>>

\* a detail key reaches its TTL (TTL_CONVERSATION_DETAIL) or is evicted
expire_detail(cid) ==
  /\ cache_kv[DetailKey(cid, DefaultLimit)] # None
  /\ cache_kv' = [cache_kv EXCEPT ![DetailKey(cid, DefaultLimit)] = None]
  /\ UNCHANGED <<pc, req, exc, fault, events, stream, full_response,
                 thoughts, context, user_message, assistant_message,
                 message_sentiment, sentiment_task, cumulative_task,
                 current_state, cumulative, inc_call, conv, messages,
                 session_ok, committed, cache_up, cache_ctx, nDone, nErr,
                 u_pc, u_in, u_out, k_pc, k_in, k_out, conversations,
                 updated_order, detail_task, history_task, ret, nCalls,
                 a_list, a_log, a_ttl, a_max, a_n, a_ret, r_has_auth,
                 r_enabled, r_limit, r_kind, r_now, r_zset, r_expiry,
                 r_checks, r_ret, x_row, x_req>>

\* one call of IncrementalSentimentAnalyzer.update
apply_update ==
  /\ u_pc = "ready"
  /\ u_out' = update(u_in.cs, u_in.ms, u_in.provider, u_in.llm)
  /\ u_pc' = "returned"
  /\ UNCHANGED <<pc, req, exc, fault, events, stream, full_response,
                 thoughts, context, user_message, assistant_message,
                 message_sentiment, sentiment_task, cumulative_task,
                 current_state, cumulative, inc_call, conv, messages,
                 session_ok, committed, cache_up, cache_ctx, nDone, nErr,
                 u_in, k_pc, k_in, k_out, conversations, updated_order,
                 cache_kv, detail_task, history_task, ret, nCalls, a_list,
                 a_log, a_ttl, a_max, a_n, a_ret, r_has_auth, r_enabled,
                 r_limit, r_kind, r_now, r_zset, r_expiry, r_checks, r_ret,
                 x_row, x_req>>

\* one call of a CacheService operation by the application
apply_cache_op ==
  /\ k_pc = "ready"
  /\ k_out' = CallOp(k_in.op, k_in.backend, k_in.stored)
  /\ k_pc' = "returned"
  /\ UNCHANGED <<pc, req, exc, fault, events, stream, full_response,
                 thoughts, context, user_message, assistant_message,
                 message_sentiment, sentiment_task, cumulative_task,
                 current_state, cumulative, inc_call, conv, messages,
                 session_ok, committed, cache_up, cache_ctx, nDone, nErr,
                 u_pc, u_in, u_out, k_in, conversations, updated_order,
                 cache_kv, detail_task, history_task, ret, nCalls, a_list,
                 a_log, a_ttl, a_max, a_n, a_ret, r_has_auth, r_enabled,
                 r_limit, r_kind, r_now, r_zset, r_expiry, r_checks, r_ret,
                 x_row, x_req>>

\* one append_to_context call on a configured backend: the pipeline rpush,
\* ltrim, expire is executed and True is returned, or the call raises and
\* False is returned, with the pipeline executed (the reply was lost) or not
append_call ==
  /\ a_n < MaxAppends
  /\ a_n' = a_n + 1
  /\ \E call \in {"ok", "raises"}, executed \in BOOLEAN :
       /\ call = "ok" => executed
       /\ a_ret' = (call = "ok")
       /\ IF executed
            THEN /\ a_list' = append_to_context(a_list, a_n', a_max)
                 /\ a_log' = Append(a_log, a_n')
                 /\ a_ttl' = "full"
            ELSE UNCHANGED <<a_list, a_log, a_ttl>>
  /\ UNCHANGED <<pc, req, exc, fault, events, stream, full_response,
                 thoughts, context, user_message, assistant_message,
                 message_sentiment, sentiment_task, cumulative_task,
                 current_state, cumulative, inc_call, conv, messages,
                 session_ok, committed, cache_up, cache_ctx, nDone, nErr,
                 u_pc, u_in, u_out, k_pc, k_in, k_out, conversations,
                 updated_order, cache_kv, detail_task, history_task, ret,
                 nCalls, a_max, r_has_auth, r_enabled, r_limit, r_kind,
                 r_now, r_zset, r_expiry, r_checks, r_ret, x_row, x_req>>

\* time passes: the time-to-live of the key runs down from
\* TTL_CONVERSATION_CONTEXT, and at zero the key is deleted
ttl_elapses ==
  /\ a_ttl # "none"
  /\ IF a_ttl = "full"
       THEN /\ a_ttl' = "running"
            /\ UNCHANGED <<a_list, a_log>>
       ELSE /\ a_ttl' = "none"
            /\ a_list' = <<>>
            /\ a_log' = <<>>
  /\ UNCHANGED <<pc, req, exc, fault, events, stream, full_response,
                 thoughts, context, user_message, assistant_message,
                 message_sentiment, sentiment_task, cumulative_task,
                 current_state, cumulative, inc_call, conv, messages,
                 session_ok, committed, cache_up, cache_ctx, nDone, nErr,
                 u_pc, u_in, u_out, k_pc, k_in, k_out, conversations,
                 updated_order, cache_kv, detail_task, history_task, ret,
                 nCalls, a_max, a_n, a_ret, r_has_auth, r_enabled, r_limit,
                 r_kind, r_now, r_zset, r_expiry, r_checks, r_ret, x_row,
                 x_req>>

\* check c is made: get_rate_limit_service constructs the service, which
\* raises AttributeError when the settings have no
\* rate_limit_auth_requests_per_minute; a service that is not enabled
\* returns at once; else current_time is read and the pipeline request is
\* sent, and the store either takes it or the request fails
begin_check(c) ==
  /\ r_checks[c].pc = 0
  /\ c > 1 => r_checks[c - 1].pc # 0
  /\ Cardinality({d \in 1..MaxChecks : r_checks[d].pc \in 1..4}) < MaxInFlight
  /\ \E outcome \in StoreOutcomes :
       LET returned(o, reply) ==
             LET res == check_limit(r_enabled, reply, r_limit, r_kind = "auth")
             IN  [NoReturn EXCEPT !.outcome = o,
                                  !.contacted = r_enabled,
                                  !.allowed = res.allowed,
                                  !.remaining = res.remaining]
       IN  IF ~r_has_auth
             THEN /\ r_ret' = [NoReturn EXCEPT !.outcome = "attribute_error"]
                  /\ r_checks' = [r_checks EXCEPT ![c].pc = 5]
           ELSE IF ~r_enabled
             THEN /\ r_ret' = returned("disabled", Raises)
                  /\ r_checks' = [r_checks EXCEPT ![c].pc = 5]
           ELSE IF outcome = "ok"
             THEN /\ r_checks' = [r_checks EXCEPT ![c].pc = 1, ![c].time = r_now]
                  /\ UNCHANGED r_ret
           ELSE /\ r_ret' = returned(outcome, PipelineReply(outcome, 0))
                /\ r_checks' = [r_checks EXCEPT ![c].pc = 5]
  /\ UNCHANGED <<pc, req, exc, fault, events, stream, full_response,
                 thoughts, context, user_message, assistant_message,
                 message_sentiment, sentiment_task, cumulative_task,
                 current_state, cumulative, inc_call, conv, messages,
                 session_ok, committed, cache_up, cache_ctx, nDone, nErr,
                 u_pc, u_in, u_out, k_pc, k_in, k_out, conversations,
                 updated_order, cache_kv, detail_task, history_task, ret,
                 nCalls, a_list, a_log, a_ttl, a_max, a_n, a_ret, r_has_auth,
                 r_enabled, r_limit, r_kind, r_now, r_zset, r_expiry, x_row,
                 x_req>>

\* a store whose ZREMRANGEBYSCORE is given a window start one second late
store_executes_short_window(c) ==
  /\ r_checks[c].pc \in 1..4
  /\ LET t == r_checks[c].time
         card == Cardinality(r_zset)
         res == check_limit(r_enabled, PipelineReply("ok", card), r_limit,
                            r_kind = "auth")
     IN  CASE r_checks[c].pc = 1 ->
                /\ r_zset' = {m \in r_zset : ~(0 <= m[1] /\ m[1] <= t - Window + 1)}
                /\ r_expiry' = IF r_zset' = {} THEN 0 ELSE r_expiry
                /\ r_checks' = [r_checks EXCEPT ![c].pc = 2]
                /\ UNCHANGED r_ret
           [] r_checks[c].pc = 2 ->
                /\ r_zset' = r_zset \cup {<<t, c>>}
                /\ r_checks' = [r_checks EXCEPT ![c].pc = 3]
                /\ UNCHANGED <<r_expiry, r_ret>>
           [] r_checks[c].pc = 3 ->
                /\ r_expiry' = IF r_zset = {} THEN 0 ELSE r_now + 2 * Window
                /\ r_checks' = [r_checks EXCEPT ![c].pc = 4]
                /\ UNCHANGED <<r_zset, r_ret>>
           [] r_checks[c].pc = 4 ->
                /\ r_checks' = [r_checks EXCEPT ![c].pc = 5,
                                                ![c].count = card,
                                                ![c].allowed = res.allowed]
                /\ r_ret' = [outcome |-> "ok", contacted |-> TRUE,
                             count |-> card, allowed |-> res.allowed,
                             remaining |-> res.remaining]
                /\ UNCHANGED <<r_zset, r_expiry>>
  /\ UNCHANGED <<pc, req, exc, fault, events, stream, full_response,
                 thoughts, context, user_message, assistant_message,
                 message_sentiment, sentiment_task, cumulative_task,
                 current_state, cumulative, inc_call, conv, messages,
                 session_ok, committed, cache_up, cache_ctx, nDone, nErr,
                 u_pc, u_in, u_out, k_pc, k_in, k_out, conversations,
                 updated_order, cache_kv, detail_task, history_task, ret,
                 nCalls, a_list, a_log, a_ttl, a_max, a_n, a_ret, r_has_auth,
                 r_enabled, r_limit, r_kind, r_now, x_row, x_req>>

\* the store executes the next command of the pipeline of check c, in the
\* order sent: ZREMRANGEBYSCORE key 0 window_start, ZADD key current_time
\* request_id, EXPIRE key 2*window, ZCARD key; after ZCARD the check returns.
\* The commands of two pipeline requests may interleave
store_executes(c) ==
  /\ r_checks[c].pc \in 1..4
  /\ LET t == r_checks[c].time
         card == Cardinality(r_zset)
         res == check_limit(r_enabled, PipelineReply("ok", card), r_limit,
                            r_kind = "auth")
     IN  CASE r_checks[c].pc = 1 ->
                /\ r_zset' = {m \in r_zset : ~(0 <= m[1] /\ m[1] <= t - Window)}
                /\ r_expiry' = IF r_zset' = {} THEN 0 ELSE r_expiry
                /\ r_checks' = [r_checks EXCEPT ![c].pc = 2]
                /\ UNCHANGED r_ret
           [] r_checks[c].pc = 2 ->
                /\ r_zset' = r_zset \cup {<<t, c>>}
                /\ r_checks' = [r_checks EXCEPT ![c].pc = 3]
                /\ UNCHANGED <<r_expiry, r_ret>>
           [] r_checks[c].pc = 3 ->
                /\ r_expiry' = IF r_zset = {} THEN 0 ELSE r_now + 2 * Window
                /\ r_checks' = [r_checks EXCEPT ![c].pc = 4]
                /\ UNCHANGED <<r_zset, r_ret>>
           [] r_checks[c].pc = 4 ->
                /\ r_checks' = [r_checks EXCEPT ![c].pc = 5,
                                                ![c].count = card,
                                                ![c].allowed = res.allowed]
                /\ r_ret' = [outcome |-> "ok", contacted |-> TRUE,
                             count |-> card, allowed |-> res.allowed,
                             remaining |-> res.remaining]
                /\ UNCHANGED <<r_zset, r_expiry>>
  /\ UNCHANGED <<pc, req, exc, fault, events, stream, full_response,
                 thoughts, context, user_message, assistant_message,
                 message_sentiment, sentiment_task, cumulative_task,
                 current_state, cumulative, inc_call, conv, messages,
                 session_ok, committed, cache_up, cache_ctx, nDone, nErr,
                 u_pc, u_in, u_out, k_pc, k_in, k_out, conversations,
                 updated_order, cache_kv, detail_task, history_task, ret,
                 nCalls, a_list, a_log, a_ttl, a_max, a_n, a_ret, r_has_auth,
                 r_enabled, r_limit, r_kind, r_now, x_row, x_req>>

\* time passes: by a window or a second less while no request is in
\* flight, by one second while pipeline requests stamped with the current
\* second are in flight (a request ends within the 5 s timeout of the client);
\* a key whose expiry is reached is deleted by the store
clock_advances ==
  /\ LET inflight == {c \in 1..MaxChecks : r_checks[c].pc \in 1..4}
     IN  \E d \in {1, Window - 1, Window} :
           /\ IF d = 1
                THEN /\ inflight # {}
                     /\ \A c \in inflight : r_checks[c].time = r_now
                ELSE inflight = {}
           /\ r_now + d <= Window + MaxElapsed
           /\ r_now' = r_now + d
  /\ IF r_expiry # 0 /\ r_now' >= r_expiry
       THEN r_zset' = {} /\ r_expiry' = 0
       ELSE UNCHANGED <<r_zset, r_expiry>>
  /\ UNCHANGED <<pc, req, exc, fault, events, stream, full_response,
                 thoughts, context, user_message, assistant_message,
                 message_sentiment, sentiment_task, cumulative_task,
                 current_state, cumulative, inc_call, conv, messages,
                 session_ok, committed, cache_up, cache_ctx, nDone, nErr,
                 u_pc, u_in, u_out, k_pc, k_in, k_out, conversations,
                 updated_order, cache_kv, detail_task, history_task, ret,
                 nCalls, a_list, a_log, a_ttl, a_max, a_n, a_ret, r_has_auth,
                 r_enabled, r_limit, r_kind, r_checks, r_ret, x_row, x_req>>

\* the request selects the conversation in its own session and takes
\* current_state from the row as committed at that moment; no lock is taken
load_state(r) ==
  /\ x_req[r].pc = "idle"
  /\ x_req' = [x_req EXCEPT ![r].pc = "loaded", ![r].cur = from_dict(x_row)]
  /\ UNCHANGED <<pc, req, exc, fault, events, stream, full_response,
                 thoughts, context, user_message, assistant_message,
                 message_sentiment, sentiment_task, cumulative_task,
                 current_state, cumulative, inc_call, conv, messages,
                 session_ok, committed, cache_up, cache_ctx, nDone, nErr,
                 u_pc, u_in, u_out, k_pc, k_in, k_out, conversations,
                 updated_order, cache_kv, detail_task, history_task, ret,
                 nCalls, a_list, a_log, a_ttl, a_max, a_n, a_ret, r_has_auth,
                 r_enabled, r_limit, r_kind, r_now, r_zset, r_expiry,
                 r_checks, r_ret, x_row>>

\* the request either ends with an error before the state is written, or
\* assigns to_dict of the state computed from the state it read and flushes;
\* the UPDATE of the row waits while another session holds an uncommitted
\* UPDATE of it
store_state(r) ==
  /\ x_req[r].pc = "loaded"
  /\ \/ x_req' = [x_req EXCEPT ![r].pc = "error"]
     \/ /\ \A q \in 1..MaxOverlap : x_req[q].pc # "flushed"
        /\ \E provider \in Providers, ms \in AnalyzeResults("llm_separate") :
             \E llm \in OutcomesFor(x_req[r].cur, ms, provider) :
               x_req' = [x_req EXCEPT
                           ![r].pc = "flushed",
                           ![r].new = to_dict(update_cumulative(
                                        x_req[r].cur, ms, provider, llm).state)]
  /\ UNCHANGED <<pc, req, exc, fault, events, stream, full_response,
                 thoughts, context, user_message, assistant_message,
                 message_sentiment, sentiment_task, cumulative_task,
                 current_state, cumulative, inc_call, conv, messages,
                 session_ok, committed, cache_up, cache_ctx, nDone, nErr,
                 u_pc, u_in, u_out, k_pc, k_in, k_out, conversations,
                 updated_order, cache_kv, detail_task, history_task, ret,
                 nCalls, a_list, a_log, a_ttl, a_max, a_n, a_ret, r_has_auth,
                 r_enabled, r_limit, r_kind, r_now, r_zset, r_expiry,
                 r_checks, r_ret, x_row>>

\* the stream ended with done and get_db commits the session: the row now
\* holds what this request wrote
commit_session(r) ==
  /\ x_req[r].pc = "flushed"
  /\ x_row' = x_req[r].new
  /\ x_req' = [x_req EXCEPT ![r].pc = "done"]
  /\ UNCHANGED <<pc, req, exc, fault, events, stream, full_response,
                 thoughts, context, user_message, assistant_message,
                 message_sentiment, sentiment_task, cumulative_task,
                 current_state, cumulative, inc_call, conv, messages,
                 session_ok, committed, cache_up, cache_ctx, nDone, nErr,
                 u_pc, u_in, u_out, k_pc, k_in, k_out, conversations,
                 updated_order, cache_kv, detail_task, history_task, ret,
                 nCalls, a_list, a_log, a_ttl, a_max, a_n, a_ret, r_has_auth,
                 r_enabled, r_limit, r_kind, r_now, r_zset, r_expiry,
                 r_checks, r_ret>>

PipelineStep ==
  \/ get_or_create_conversation
  \/ load_context
  \/ save_user_message
  \/ emit_start
  \/ setup_stream
  \/ structured_stream
  \/ separate_stream
  \/ sentiment_task_completes
  \/ cumulative_task_completes
  \/ await_sentiment
  \/ reconcile_cumulative
  \/ persist
  \/ cache_sync
  \/ emit_sentiment
  \/ emit_done
  \/ handle_exception
  \/ get_db

Next ==
  \/ \E p \in Providers, m \in Methods : Begin(p, m)
  \/ PipelineStep

Spec == Init /\ [][Next]_vars

\* every step that is enabled is eventually taken: each external call
\* returns or raises, and the client keeps consuming the events
SpecLive == Spec /\ WF_vars(PipelineStep)

\* the same requests with a client that may go away during the stream
NextAbandon ==
  \/ Next
  \/ client_disconnects
  \/ get_db_abandoned

SpecAbandon == Init /\ [][NextAbandon]_vars

\* the same requests with the cache backend configured or not, its calls
\* failing or not, and its keys expiring
InitCtx ==
  /\ PipelineInit /\ cache_up \in BOOLEAN /\ UpdateIdle /\ CacheOpsIdle
  /\ OwnerInit /\ AppendIdle /\ LimitIdle /\ OverlapIdle

\* the cache calls of the pipeline do not depend on the provider or on the
\* sentiment method: the requests are those of one provider on the
\* separate path
NextCtx ==
  \/ \E m \in {"llm_separate", "nlp_api"} : Begin("openai", m)
  \/ get_or_create_conversation
  \/ load_context
  \/ save_user_message
  \/ emit_start
  \/ setup_stream
  \/ separate_stream
  \/ sentiment_task_completes
  \/ await_sentiment
  \/ reconcile_cumulative
  \/ persist
  \/ cache_sync
  \/ emit_sentiment
  \/ emit_done
  \/ handle_exception
  \/ get_db
  \/ expire_context

SpecCtx == InitCtx /\ [][NextCtx]_vars

\* ------------------------------------------------------------------------
\* update applied on its own to every input of a bounded set
\* ------------------------------------------------------------------------
\* states a conversation can hold: the default before the first message,
\* afterwards any summary, score and label with a count of at least 1
UpdateStates ==
  {DefaultState} \cup
  { CumulativeState(sm, RatOfInt(sc), ct, lb) :
      sm \in {"", "User is happy"}, sc \in {-10000, -1100, -1000, 1000, 1100, 2000, 8000},
      ct \in 1..MaxCount, lb \in Labels }

\* message sentiments handed to update, or None
UpdateSentiments ==
  {None} \cup AnalyzeResults("llm_separate") \cup
  { SentimentResult(RatOfInt(-8000), "Negative", "llm_separate", "sad", "None"),
    SentimentResult(RatOfInt(1000), "Neutral", "nlp_api", "None", "None"),
    SentimentResult(RatOfInt(1100), "Positive", "nlp_api", "None", "None"),
    SentimentResult(RatOfInt(-1000), "Neutral", "nlp_api", "None", "None"),
    SentimentResult(RatOfInt(-1100), "Negative", "nlp_api", "None", "None"),
    SentimentResult(RatOfInt(0), "Neutral", "structured", "None", "None") }

UpdateInputs ==
  { [cs |-> cs, ms |-> ms, provider |-> p, llm |-> llm] :
      cs \in UpdateStates, ms \in UpdateSentiments, p \in Providers,
      llm \in LLMOutcomes }

InitUpdate ==
  /\ PipelineInit
  /\ CacheDown
  /\ CacheOpsIdle
  /\ OwnerInit
  /\ AppendIdle
  /\ LimitIdle
  /\ OverlapIdle
  /\ u_pc = "ready"
  /\ u_in \in UpdateInputs
  /\ u_out = None

SpecUpdate == InitUpdate /\ [][apply_update]_vars


\* ------------------------------------------------------------------------
\* one cache operation applied on its own to every input of a bounded set
\* ------------------------------------------------------------------------
InitCacheOps ==
  /\ PipelineInit
  /\ CacheDown
  /\ UpdateIdle
  /\ OwnerInit
  /\ AppendIdle
  /\ LimitIdle
  /\ OverlapIdle
  /\ k_pc = "ready"
  /\ k_in \in CacheInputs
  /\ k_out = None

SpecCacheOps == InitCacheOps /\ [][apply_cache_op]_vars

\* ------------------------------------------------------------------------
\* the cached context list of one conversation under a sequence of
\* append_to_context calls, with time passing between them
\* ------------------------------------------------------------------------
InitAppend ==
  /\ PipelineInit
  /\ cache_up = TRUE
  /\ UpdateIdle
  /\ CacheOpsIdle
  /\ OwnerInit
  /\ LimitIdle
  /\ OverlapIdle
  /\ a_list = <<>>
  /\ a_log = <<>>
  /\ a_ttl = "none"
  /\ a_max \in 1..MaxMessages
  /\ a_n = 0
  /\ a_ret = FALSE

SpecAppend == InitAppend /\ [][append_call \/ ttl_elapses]_vars

\* ------------------------------------------------------------------------
\* rate-limit checks of one identifier against the store, with the clock
\* ------------------------------------------------------------------------
InitLimit ==
  /\ PipelineInit
  /\ CacheDown
  /\ UpdateIdle
  /\ CacheOpsIdle
  /\ OwnerInit
  /\ AppendIdle
  /\ OverlapIdle
  /\ r_has_auth \in BOOLEAN
  /\ r_enabled \in BOOLEAN
  /\ r_limit \in 1..MaxLimit
  /\ r_kind \in CheckKinds
  /\ r_now = Window
  /\ r_zset = {}
  /\ r_expiry = 0
  /\ r_checks = [c \in 1..MaxChecks |-> NoCheck]
  /\ r_ret = NoReturn

SpecLimit ==
  InitLimit /\ [][\/ \E c \in 1..MaxChecks : begin_check(c)
                  \/ \E c \in 1..MaxChecks : store_executes(c)
                  \/ clock_advances]_vars

\* ------------------------------------------------------------------------
\* requests of one user on the same conversation, each with its own session
\* ------------------------------------------------------------------------
InitOverlap ==
  /\ PipelineInit
  /\ CacheDown
  /\ UpdateIdle
  /\ CacheOpsIdle
  /\ OwnerInit
  /\ AppendIdle
  /\ LimitIdle
  /\ x_row \in {None} \cup {to_dict(seed(ms).state) :
                             ms \in AnalyzeResults("llm_separate")}
  /\ x_req = [r \in 1..MaxOverlap |-> NoRequest]

SpecOverlap ==
  InitOverlap /\ [][\/ \E r \in 1..MaxOverlap : load_state(r)
                    \/ \E r \in 1..MaxOverlap : store_state(r)
                    \/ \E r \in 1..MaxOverlap : commit_session(r)]_vars


\* ------------------------------------------------------------------------
\* the conversations of two users: detail, history, rename, delete and chat
\* requests
\* in any order, with the cache configured or not
\* ------------------------------------------------------------------------
InitOwner ==
  /\ PipelineInit
  /\ cache_up \in BOOLEAN
  /\ UpdateIdle
  /\ CacheOpsIdle
  /\ OwnerInit
  /\ AppendIdle
  /\ LimitIdle
  /\ OverlapIdle

NextOwner ==
  \/ \E u \in Users, cid \in ConvIds, offset \in Offsets :
       get_conversation_detail(u, cid, offset)
  \/ set_conversation_detail_task
  \/ \E u \in Users, cid \in ConvIds, title \in Titles :
       rename_conversation(u, cid, title)
  \/ \E u \in Users, cid \in ConvIds : delete_conversation(u, cid)
  \/ \E u \in Users : delete_all_conversations(u)
  \/ \E u \in Users, limit \in HistoryLimits :
       get_conversation_history(u, limit)
  \/ set_conversation_history_task
  \/ \E u \in Users, conversation_id \in RequestedIds :
       stream_chat(u, conversation_id)
  \/ \E cid \in ConvIds : expire_detail(cid)

SpecOwner == InitOwner /\ [][NextOwner]_vars
\* ------------------------------------------------------------------------
\* Properties
\* ------------------------------------------------------------------------
StreamTypes == {"chunk", "thought"}

\* positions of the events of the given types
EventsOf(types) == {i \in 1..Len(events) : events[i].type \in types}

\* C1: in every event sequence of one request, start comes before every
\* chunk and thought, chunk and thought events follow the order in which the
\* adapter yielded their chunks (and carry the kind the adapter gave them),
\* sentiment is emitted only once the message sentiment and the cumulative
\* sentiment are both obtained, and no event follows done.
C1_EventOrder ==
  /\ \A i \in EventsOf(StreamTypes) : i > 1 /\ events[1].type = "start"
  /\ \A i \in EventsOf(StreamTypes) :
       LET idx == events[i].data.content
       IN  /\ idx \in 1..Len(stream)
           /\ stream[idx].content
           /\ (events[i].type = "thought") = stream[idx].is_thought
  /\ \A i, j \in EventsOf(StreamTypes) :
       i < j => events[i].data.content < events[j].data.content
  /\ \A i \in EventsOf({"sentiment"}) :
       /\ message_sentiment # None
       /\ cumulative # None
       /\ sentiment_task.st # "running"
       /\ cumulative_task.st # "running"
       /\ events[i].data.message = sentiment_stream_payload(message_sentiment)
       /\ events[i].data.cumulative = sentiment_stream_payload(cumulative.result)
  /\ \A i \in EventsOf({"done"}) : i = Len(events)

\* a finished stream with a chunk, then a thought, then sentiment and done
C1_Witness ==
  /\ pc = "closed"
  /\ LastType = "done"
  /\ Len(events) = 5
  /\ events[2].type = "chunk"
  /\ events[3].type = "thought"
  /\ events[4].type = "sentiment"

\* the steps of process_chat_stream that come before the start event
PreStartSteps == {"get_conv", "load_ctx", "save_user"}

\* C2 as stated: the first event of every request is start and the last is
\* done or error, a failure before start not being emitted as an event.
C2_FirstIsStart ==
  pc = "closed" =>
    /\ Started
    /\ LastType \in {"done", "error"}
    /\ fault \in PreStartSteps => EventsOf({"error"}) = {}

\* C2 amended: every request emits at least one event and its last event is
\* done or error; the first event is start unless a step before start
\* (conversation lookup or creation, context load, user-message flush)
\* fails, and then the failure is caught by the generator and the whole
\* sequence is the single error event.
C2_FirstIsStartUnlessEarlyFailure ==
  pc = "closed" =>
    /\ events # <<>>
    /\ LastType \in {"done", "error"}
    /\ fault \notin PreStartSteps => events[1].type = "start"
    /\ fault \in PreStartSteps => Len(events) = 1 /\ events[1].type = "error"

\* the user-message flush failed and the stream has ended
C2_Witness ==
  /\ pc = "closed"
  /\ fault = "save_user"
  /\ Len(events) = 1

\* the stream ended with sentiment then done, or with error
EndedWell ==
  \/ LastType = "error"
  \/ /\ LastType = "done"
     /\ Len(events) >= 2
     /\ events[Len(events) - 1].type = "sentiment"

\* C3: once start is emitted the stream eventually ends, and it ends with
\* sentiment followed by done or with error, never after a start, chunk
\* or thought event.
C3_StreamTerminates ==
  /\ [](pc = "closed" /\ Started => EndedWell)
  /\ (Started ~> pc = "closed")

\* a stream that forwarded a chunk and then ended with error
C3_Witness ==
  /\ pc = "closed"
  /\ Started
  /\ LastType = "error"
  /\ EventsOf({"chunk"}) # {}

\* number of rows of the role among the rows
RowsOf(rows, role) == Cardinality({i \in 1..Len(rows) : rows[i] = role})

\* C4: when the adapter stream raises after start, what follows is exactly
\* one error event and nothing else (no sentiment, no done), the chunks
\* already emitted are not persisted and no assistant Message is added.
C4_StreamFailure ==
  pc = "closed" /\ fault = "stream" =>
    /\ Started
    /\ LastType = "error"
    /\ Cardinality(EventsOf({"error"})) = 1
    /\ EventsOf({"sentiment", "done"}) = {}
    /\ \A i \in 2..(Len(events) - 1) : events[i].type \in StreamTypes
    /\ assistant_message = None
    /\ RowsOf(messages, "assistant") = RowsOf(committed.messages, "assistant")
    /\ messages = Append(committed.messages, "user")
    /\ conv.sentiment_state = committed.conv.sentiment_state
    /\ session_ok

\* the stream raised after a chunk had been forwarded
C4_Witness ==
  /\ pc = "closed"
  /\ fault = "stream"
  /\ full_response # <<>>
  /\ EventsOf({"chunk"}) # {}

\* C5: the payload of the error event does not depend on the exception:
\* it is the same generic message for every exception text, and the
\* exception text is nowhere in the stream.
C5_GenericError ==
  \A i \in EventsOf({"error"}) : events[i].data.message \notin ExcTexts

\* C6: after N requests on a new conversation that each ended with done,
\* the persisted cumulative count is N, for every provider, method and
\* outcome of the sentiment calls.
C6_CountIsTurns ==
  /\ pc = "idle" /\ nErr = 0 =>
       from_dict(committed.conv.sentiment_state).count = nDone
  /\ pc = "closed" /\ nErr = 0 /\ LastType = "done" =>
       from_dict(conv.sentiment_state).count = nDone + 1

\* two requests have ended with done and none with error
C6_Witness ==
  /\ pc = "idle"
  /\ nErr = 0
  /\ nDone >= 2
  /\ committed.conv.sentiment_state # None

\* the incremental model call did not produce a result
IncrementalFailed == inc_call.out \in {"raise", "empty"}

\* C7: when the parallel cumulative task was started and its incremental
\* model call fails, the cumulative result is the weighted running average
\* of the old score and the message score, with count + 1.
C7_ParallelFallbackIsAverage ==
  pc = "persist" /\ cumulative_task.st = "ok" /\ inc_call.out = "raise" =>
    /\ cumulative.state.count = current_state.count + 1
    /\ cumulative.state.score.num * message_sentiment.score.den
         * current_state.score.den * (current_state.count + 1)
       = (current_state.score.num * current_state.count * message_sentiment.score.den
            + message_sentiment.score.num * current_state.score.den)
         * cumulative.state.score.den

\* the steps other than the sentiment calls that can raise
OtherSteps == {"get_conv", "load_ctx", "save_user", "adapter", "stream", "flush"}

\* C8: a failure of the message-sentiment analysis or of the cumulative
\* update never produces an error event: the request persists the assistant
\* Message and ends with sentiment then done, the message sentiment being
\* the neutral result when its task failed.
C8_SentimentFailureAbsorbed ==
  pc = "closed" /\ (sentiment_task = Failed \/ IncrementalFailed)
               /\ fault \notin OtherSteps =>
    /\ EventsOf({"error"}) = {}
    /\ LastType = "done"
    /\ events[Len(events) - 1].type = "sentiment"
    /\ assistant_message # None
    /\ messages[Len(messages)] = "assistant"
    /\ session_ok
    /\ sentiment_task = Failed =>
         /\ message_sentiment = neutral
         /\ events[Len(events) - 1].data.message = sentiment_stream_payload(neutral)

\* both the message-sentiment task and the incremental call failed
C8_Witness ==
  /\ pc = "closed"
  /\ sentiment_task = Failed
  /\ inc_call.out = "raise"
  /\ LastType = "done"

\* update was applied to a state with count 0 and a message sentiment
SeedCase == u_pc = "returned" /\ u_in.cs.count = 0 /\ u_in.ms # None

\* the short emotion phrase of a message sentiment
EmotionPhrase(ms) == UserIs(OrElse(ms.emotion, Lower(ms.label)))

\* C9 as stated: with count 0 and a message sentiment, for every provider,
\* the new state has count 1, the score and the label of the message and
\* the emotion phrase as summary.
C9_SeedEveryProvider ==
  SeedCase =>
    /\ u_out.state.count = 1
    /\ RatEq(u_out.state.score, u_in.ms.score)
    /\ u_out.state.label = u_in.ms.label
    /\ u_out.state.summary = EmotionPhrase(u_in.ms)

\* C9 amended: with count 0 and a message sentiment the new state has
\* count 1 and the score of the message for every provider; for the
\* provider with the incremental capability (gemini) the label is the
\* label of the message and the summary is the emotion phrase, for any
\* other provider the label is score_to_label of the score and the
\* summary is unchanged.
C9_SeedByProvider ==
  SeedCase =>
    /\ u_out.state.count = 1
    /\ RatEq(u_out.state.score, u_in.ms.score)
    /\ u_in.provider = "gemini" =>
         /\ u_out.state.label = u_in.ms.label
         /\ u_out.state.summary = EmotionPhrase(u_in.ms)
         /\ u_out.result.summary = u_out.state.summary
    /\ u_in.provider # "gemini" =>
         /\ u_out.state.label = score_to_label(u_in.ms.score)
         /\ u_out.state.summary = u_in.cs.summary

\* the first message was seeded from a sentiment without an emotion
C9_Witness ==
  /\ SeedCase
  /\ u_in.provider = "gemini"
  /\ u_in.ms.emotion = "None"
  /\ u_out.state.summary = "User is positive"

\* update took the weighted-average fallback
FallbackCase ==
  /\ u_pc = "returned"
  /\ u_in.ms # None
  /\ \/ u_in.provider # "gemini"
     \/ u_in.cs.count > 0 /\ u_in.llm.out \in {"raise", "empty"}

\* C10: on the weighted-average fallback the new score is
\* (oldScore*count + messageScore) / (count+1), the label is score_to_label
\* of it, the summary is unchanged and the count is count+1, so the result
\* depends on (oldScore, count, messageScore) only; count 3, score 0.2 and
\* a message scored 0.8 give 0.35.
C10_WeightedAverage ==
  FallbackCase =>
    LET old == u_in.cs.score
        msg == u_in.ms.score
        new == u_out.state.score
        n == u_in.cs.count
    IN  /\ new.den > 0
        /\ new.num * old.den * msg.den * (n + 1)
             = (old.num * n * msg.den + msg.num * old.den) * new.den
        /\ u_out.state.label = score_to_label(new)
        /\ u_out.state.summary = u_in.cs.summary
        /\ u_out.state.count = n + 1
        /\ u_out.result.score = new
        /\ u_out.result.label = u_out.state.label
        /\ (n = 3 /\ RatEq(old, RatOfInt(2000)) /\ RatEq(msg, RatOfInt(8000)))
             => RatEq(new, RatOfInt(3500)) /\ Round4(new) = 3500

\* the fallback applied to count 3, score 0.2 and a message scored 0.8
C10_Witness ==
  /\ FallbackCase
  /\ u_in.provider = "gemini"
  /\ u_in.cs.count = 3
  /\ u_in.cs.score = RatOfInt(2000)
  /\ u_in.ms.score = RatOfInt(8000)


\* update was called with no message sentiment and could not or did not
\* obtain an incremental result
NoSentimentCase ==
  /\ u_pc = "returned"
  /\ u_in.ms = None
  /\ \/ u_in.provider # "gemini"
     \/ u_in.llm.out \in {"raise", "empty"}

\* C11: update called with no message sentiment, when no incremental call
\* is possible (provider other than gemini) or the incremental call did
\* not succeed (it raised or returned no text), returns a state whose
\* summary, score and label are those of the input state and whose count
\* is the input count plus exactly 1.
C11_UnchangedCountPlusOne ==
  NoSentimentCase =>
    /\ u_out.state.summary = u_in.cs.summary
    /\ u_out.state.score = u_in.cs.score
    /\ u_out.state.label = u_in.cs.label
    /\ u_out.state.count = u_in.cs.count + 1
    /\ u_out.result.source = "incremental_unchanged"

\* openai, no message sentiment, a state whose label is not the label of
\* its score
C11_Witness ==
  /\ NoSentimentCase
  /\ u_in.provider = "openai"
  /\ u_in.cs.count = 2
  /\ u_in.cs.label # score_to_label(u_in.cs.score)

\* the user Message of this request is a flushed row of the session
UserRowFlushed ==
  /\ user_message # None
  /\ user_message.id \in 1..Len(messages)
  /\ messages[user_message.id] = "user"

\* the stream began with start and has ended with error
EndedWithError == pc = "closed" /\ Started /\ LastType = "error"

C13_AbandonedStream ==
  /\ [](pc = "abandoned" =>
          /\ sentiment_task.st # "cancelled"
          /\ cumulative_task.st # "cancelled")
  /\ [][sentiment_task_completes \/ cumulative_task_completes =>
          UNCHANGED dbvars]_vars
  /\ [][pc = "abandoned" /\ pc' = "idle" =>
          /\ committed'.messages = Append(committed.messages, "user")
          /\ committed'.conv.sentiment_state
               = committed.conv.sentiment_state]_vars

\* the window of the turns the session holds for the conversation
DatabaseWindow == LastTurns(messages, ContextWindow)

\* C14: with the cache unavailable, or with its calls failing, a request
\* behaves as with a working cache that misses: _load_context then returns
\* the database window (the cached list is used only on a working hit),
\* the gathered cache calls change nothing but the cache and always lead
\* on to the sentiment event, and no step fails because of a cache call,
\* so the events, the rows and the sentiment state are those of the same
\* request without a cache.
C14_CacheNeverMatters ==
  /\ [](fault # "cache")
  /\ [][pc = "load_ctx" /\ pc' = "save_user" =>
          \/ context' = DatabaseWindow
          \/ /\ cache_up
             /\ cache_ctx # <<>>
             /\ context' = CachedContext(ContextWindow)]_vars
  /\ [][pc = "cache_sync" /\ pc' # pc =>
          /\ pc' = "emit_sentiment"
          /\ UNCHANGED <<locals, dbvars, counters, cache_up>>
          /\ ~cache_up => UNCHANGED cache_ctx]_vars

\* the second request of a conversation has persisted its assistant
\* Message while the cache is configured and holds nothing: every append
\* of both requests failed or was lost
C14_Witness ==
  /\ cache_up
  /\ pc = "emit_sentiment"
  /\ cache_ctx = <<>>
  /\ messages = <<"user", "assistant", "user", "assistant">>
  /\ session_ok

\* C19: the context _load_context returns is the last ContextWindow turns
\* of the conversation in the database, oldest first, whether it comes
\* from the cache or from the database, and between two requests a cached
\* context that is present is that same window (it was rebuilt from the
\* database after a miss and extended by the newer turns).
C19_ContextIsLastTurns ==
  /\ [](pc = "save_user" => context = DatabaseWindow)
  /\ [](pc = "idle" /\ cache_up /\ cache_ctx # <<>> =>
          CachedContext(ContextWindow)
            = LastTurns(committed.messages, ContextWindow))

\* the backend is unconfigured, or the first client call of the operation
\* raises
DegradedCall ==
  /\ k_pc = "returned"
  /\ (~k_in.backend.configured \/ k_in.backend.fail_at = 1)

\* the backend is unconfigured, or some client call of the operation raises
FailingCall ==
  /\ k_pc = "returned"
  /\ (~k_in.backend.configured \/ k_in.backend.fail_at > 0)

DetailReturned == ret.op = "get_conversation_detail" /\ ret.value # None

\* C16: get_conversation_detail never returns a conversation whose owner
\* is not the caller, whatever the cache holds: the detail returned carries
\* the caller's user_id and the row with that id is the caller's
C16_DetailOnlyToOwner ==
  DetailReturned =>
    /\ ret.value.id = ret.cid
    /\ ret.value.user_id = ret.user
    /\ conversations[ret.cid].user_id = ret.user

\* a first-page request found another user's detail in the cache and
\* returned None
C16_Witness ==
  /\ ret.op = "get_conversation_detail"
  /\ ret.offset = 0
  /\ ret.value = None
  /\ cache_up
  /\ cache_kv[DetailKey(ret.cid, DefaultLimit)] # None
  /\ cache_kv[DetailKey(ret.cid, DefaultLimit)].user_id # ret.user
  /\ conversations[ret.cid].state = "live"

\* the last call was a chat request whose conversation lookup returned
Streamed == ret.op = "stream_chat" /\ ret.conversation # 0

\* the chat request named an id that is not a live row of the caller
NotCallersId ==
  /\ Streamed
  /\ ret.cid # 0
  /\ (conversations[ret.cid].state # "live"
        \/ conversations[ret.cid].user_id # ret.user)

\* the chat request named a live conversation of another user
ForeignId ==
  /\ ret.op = "stream_chat"
  /\ ret.cid # 0
  /\ conversations[ret.cid].state = "live"
  /\ conversations[ret.cid].user_id # ret.user

\* C17: _get_or_create_conversation always returns a conversation owned by
\* the caller; for an id that does not exist or belongs to another user it
\* creates and returns a new conversation of the caller, and it never
\* returns or modifies a row of another user
C17_ConversationOfCaller ==
  /\ [](Streamed =>
          /\ conversations[ret.conversation].state = "live"
          /\ conversations[ret.conversation].user_id = ret.user)
  /\ [](NotCallersId => ret.created /\ ret.conversation # ret.cid)
  /\ [][(nCalls' = nCalls + 1 /\ ret'.op = "stream_chat") =>
          \A c \in ConvIds :
            conversations[c].state # "absent" =>
              conversations'[c] = conversations[c]]_vars

\* a chat request that named an id no row has was given a new conversation
C17_Witness ==
  /\ Streamed
  /\ ret.cid # 0
  /\ conversations[ret.cid].state = "absent"
  /\ ret.created
  /\ conversations[ret.conversation] = Row(ret.user, AutoTitle)

\* C18 as stated: a chat request that names a conversation of another user
\* is rejected before streaming starts, no SSE event is emitted
C18_ForeignIdRejected ==
  ForeignId => ret.events = <<>> /\ ~ret.created

\* C18: a chat request that names a conversation of another user is not
\* rejected: a new conversation of the caller is created and start is
\* emitted with the id of the new conversation, or a database call fails
\* and the only event is error
C18_ForeignIdStartsNewConversation ==
  ForeignId =>
    IF ret.conversation = 0
      THEN Len(ret.events) = 1 /\ ret.events[1].type = "error"
      ELSE /\ ret.created
           /\ ret.conversation # ret.cid
           /\ ret.events =
                <<sse_event("start", [conversation_id |-> ret.conversation])>>

\* a chat request named another user's conversation and start was emitted
C18_Witness ==
  /\ ForeignId
  /\ Len(ret.events) = 1
  /\ ret.events[1].type = "start"

\* C20: after rename_conversation returned True the next
\* get_conversation_detail by the owner returns the new title, and after
\* delete_conversation returned True it returns None, also when the detail
\* had been cached before
C20_MutationVisible ==
  [][(/\ nCalls' = nCalls + 1
      /\ ret'.op = "get_conversation_detail"
      /\ ret.op \in {"rename_conversation", "delete_conversation"}
      /\ ret.ok
      /\ ret'.cid = ret.cid
      /\ ret'.user = ret.user) =>
       IF ret.op = "rename_conversation"
         THEN ret'.value # None /\ ret'.value.title = ret.title
         ELSE ret'.value = None]_vars

\* the last call changed the caller's set of conversations: a chat request
\* that ended with done, a rename or delete that returned True, or
\* delete_all_conversations
MutationDone ==
  IF ret.op \in {"rename_conversation", "delete_conversation"} THEN ret.ok
  ELSE IF ret.op = "stream_chat" THEN ret.ending = "done"
  ELSE ret.op = "delete_all_conversations"

\* C21: with a working cache, every mutation of a user's set of
\* conversations (a chat request that ends with done, delete, delete all,
\* rename) removes that user's history entry before it returns or emits
\* done, and removes no other user's entry
C21_HistoryInvalidated ==
  [][(nCalls' = nCalls + 1 /\ MutationDone' /\ ret'.history_call = "ok") =>
       /\ cache_kv'[HistoryKey(ret'.user)] = None
       /\ \A v \in Users \ {ret'.user} :
            cache_kv'[HistoryKey(v)] = cache_kv[HistoryKey(v)]]_vars

\* a chat request on a second conversation ended with done and removed
\* the caller's cached listing
C21_Witness ==
  /\ ret.op = "stream_chat"
  /\ ret.ending = "done"
  /\ ret.history_call = "ok"
  /\ ret.had_history
  /\ cache_kv[HistoryKey(ret.user)] = None
  /\ Cardinality({c \in ConvIds : conversations[c].state = "live"
                                  /\ conversations[c].user_id = ret.user}) = 2

\* C22: after any sequence of append_to_context calls on one conversation
\* the cached list holds at most max_messages entries, these are the most
\* recently appended entries in append order, and every append that
\* returns True has reset the time-to-live of the list
C22_BoundedRecentContext ==
  /\ [](Len(a_list) <= a_max)
  /\ [](Len(a_list) = (IF Len(a_log) < a_max THEN Len(a_log) ELSE a_max))
  /\ [](\A i \in 1..Len(a_list) :
          a_list[i] = a_log[Len(a_log) - Len(a_list) + i])
  /\ [][(a_n' = a_n + 1 /\ a_ret') => a_ttl' = "full"]_vars

\* more than max_messages entries were appended, the oldest were trimmed,
\* and the last append reset a time-to-live that had been running
C22_Witness ==
  /\ Len(a_log) > a_max
  /\ a_max > 1
  /\ Len(a_list) = a_max
  /\ a_list[Len(a_list)] = a_n
  /\ a_ret
  /\ a_ttl = "full"

\* C23: when the store answers a rate-limit check, the check returns
\* allowed = (count <= limit) and remaining = max(0, limit - count), where
\* count includes the entry of the check itself: at count = limit it is
\* allowed with remaining 0, at count = limit + 1 it is denied with
\* remaining 0
C23_AllowedIffWithinLimit ==
  r_ret.outcome = "ok" =>
    /\ r_ret.count >= 1
    /\ r_ret.allowed = (r_ret.count <= r_limit)
    /\ r_ret.remaining =
         (IF r_ret.count >= r_limit THEN 0 ELSE r_limit - r_ret.count)

\* one check returned allowed at count = limit with remaining 0, and the
\* next one was denied at count = limit + 1 with remaining 0
C23_Witness ==
  /\ r_ret.outcome = "ok"
  /\ r_ret.count = r_limit + 1
  /\ ~r_ret.allowed
  /\ r_ret.remaining = 0
  /\ \E c \in 1..MaxChecks :
       r_checks[c].count = r_limit /\ r_checks[c].allowed

\* C24: when rate limiting is enabled and the store call fails (unreachable,
\* HTTP error, malformed reply), check_auth_limit returns (denied, 0) and
\* check_general_limit and check_chat_limit return (allowed, -1)
C24_FailPolicy ==
  (r_enabled /\ r_ret.outcome \in StoreOutcomes \ {"ok"}) =>
    IF r_kind = "auth"
      THEN ~r_ret.allowed /\ r_ret.remaining = 0
      ELSE r_ret.allowed /\ r_ret.remaining = -1

\* C25: when rate limiting is disabled or the store is not configured, all
\* three checks return (allowed, -1) without contacting the store
C25_DisabledAllows ==
  (~r_enabled /\ r_ret.outcome # "none") =>
    /\ r_ret.allowed
    /\ r_ret.remaining = -1
    /\ ~r_ret.contacted

\* C26: the four commands of a check (remove the old entries, add the
\* entry of this request, set the expiry, count) are one atomic unit with
\* respect to the other checks on the key, the count a check sees includes
\* its own entry, and no two checks add the same member
C26_AtomicPipeline ==
  /\ \A c, d \in 1..MaxChecks :
       (c # d /\ r_checks[c].pc \in 2..4) => r_checks[d].pc \notin 2..4
  /\ \A c \in 1..MaxChecks :
       (r_checks[c].pc = 5 /\ r_checks[c].count # -1) => r_checks[c].count >= 1
  /\ \A m, n \in r_zset : m[2] = n[2] => m = n

\* C27: every event of a stream carries an id field, and the ids of one
\* stream are 1, 2, 3, ... in the order the events are emitted
C27_EventIds ==
  \A i \in 1..Len(events) : "id" \in DOMAIN events[i] /\ events[i].id = i

\* the contents of the events of one type emitted so far, in order
EmittedContents(type) ==
  LET sel == SelectSeq(events, LAMBDA e : e.type = type)
  IN  [i \in 1..Len(sel) |-> sel[i].data.content]

\* C28: the assistant Message that is persisted has as content the
\* concatenation, in order, of exactly the contents emitted as chunk
\* events, and as model_info.thoughts the ordered list of the contents
\* emitted as thought events (None when there were none); no thought is
\* part of the content, and nothing is consumed after the terminal chunk
C28_MessageIsWhatWasEmitted ==
  ~IsNone(assistant_message) =>
    /\ assistant_message.content = EmittedContents("chunk")
    /\ assistant_message.thoughts =
         (IF EmittedContents("thought") = <<>> THEN None
          ELSE EmittedContents("thought"))
    /\ \A i \in 1..Len(assistant_message.content) :
         /\ stream[assistant_message.content[i]].content
         /\ ~stream[assistant_message.content[i]].is_thought
    /\ \A i \in 1..Len(stream) : stream[i].is_final <=> i = Len(stream)

\* a Message was persisted after a stream that yielded a chunk, a thought
\* and a terminal chunk
C28_Witness ==
  /\ ~IsNone(assistant_message)
  /\ Len(assistant_message.content) >= 1
  /\ Len(EmittedContents("thought")) >= 1
  /\ Len(stream) > 2
  /\ LastType = "done"

\* the score update returned is exactly v units (v / Scale)
ReturnedScoreIs(v) ==
  u_out.state.score.num = v * u_out.state.score.den

\* C29: score_to_label returns Positive exactly for scores greater than
\* 0.1, Negative exactly for scores less than -0.1 and Neutral otherwise:
\* 0.1 and -0.1 are Neutral, 0.11 is Positive and -0.11 is Negative. Checked
\* on every label the weighted average takes from score_to_label
C29_LabelBoundaries ==
  (u_pc = "returned" /\ u_out.result.source = "incremental_fallback") =>
    LET s == u_out.state.score
        lb == u_out.state.label
    IN  /\ s.den > 0
        /\ lb = "Positive" <=> 10 * s.num > Scale * s.den
        /\ lb = "Negative" <=> 10 * s.num < -Scale * s.den
        /\ lb = "Neutral" <=>
             (10 * s.num <= Scale * s.den /\ 10 * s.num >= -Scale * s.den)
        /\ ReturnedScoreIs(1000) => lb = "Neutral"
        /\ ReturnedScoreIs(-1000) => lb = "Neutral"
        /\ ReturnedScoreIs(1100) => lb = "Positive"
        /\ ReturnedScoreIs(-1100) => lb = "Negative"

\* the weighted average is exactly 0.1 and was labelled Neutral, although
\* the state it was computed from was labelled Positive
C29_Witness ==
  /\ u_pc = "returned"
  /\ u_out.result.source = "incremental_fallback"
  /\ ReturnedScoreIs(1000)
  /\ u_out.state.label = "Neutral"
  /\ u_in.cs.label = "Positive"

\* the request is past the task creation of the separate path
OnSeparatePath == pc \in {"stream", "await_sentiment"}

\* C30: on the separate path the message-sentiment task is started before
\* the first item of the LLM stream is requested, and the cumulative task
\* is started in the same step if and only if the provider is the one with
\* the incremental call and the count of the conversation is at least 1;
\* on the structured path neither task is started; when no cumulative task
\* was started, the cumulative update is made after the message sentiment
\* was awaited and is given that sentiment
C30_TaskStartPoints ==
  /\ [](OnSeparatePath => sentiment_task.st # "none")
  /\ [](OnSeparatePath =>
          (cumulative_task.st # "none" <=>
             (req.provider = "gemini" /\ current_state.count >= 1)))
  /\ []((pc # "idle" /\ req.method = "structured") =>
          (sentiment_task.st = "none" /\ cumulative_task.st = "none"))
  /\ [][(sentiment_task.st = "none" /\ sentiment_task'.st # "none") =>
          (req.method # "structured" /\ stream = <<>> /\ stream' = <<>>
           /\ pc' = "stream")]_vars
  /\ [][(cumulative_task.st = "none" /\ cumulative_task'.st # "none") =>
          (sentiment_task.st = "none" /\ sentiment_task'.st # "none")]_vars
  /\ [][(pc = "cumulative" /\ pc' = "persist" /\ cumulative_task.st = "none") =>
          /\ ~IsNone(message_sentiment)
          /\ req.method # "structured" =>
               /\ sentiment_task.st \in {"ok", "failed"}
               /\ message_sentiment =
                    (IF sentiment_task.st = "ok" THEN sentiment_task.val
                     ELSE neutral)
          /\ \E llm \in OutcomesFor(current_state, message_sentiment,
                                     req.provider) :
               cumulative' = update_cumulative(current_state,
                                 message_sentiment, req.provider, llm)]_vars

\* a Gemini request on a conversation that has a count: both tasks run
\* while the stream is being read
C30_Witness ==
  /\ pc = "stream"
  /\ req.provider = "gemini"
  /\ current_state.count >= 1
  /\ sentiment_task.st = "running"
  /\ cumulative_task.st = "running"
  /\ Len(stream) >= 1

\* the sentiment data the request attaches to its user message
ReconciledData ==
  [message |-> DictOrNone(message_sentiment),
   cumulative |-> DictOrNone(cumulative.result)]

\* C31: within one request the sentiment state of the conversation and the
\* sentiment data of the user message are each assigned exactly once, in
\* the step that follows the reconciliation of the two sentiments and
\* writes the assistant Message; a request that ends with error leaves the
\* persisted sentiment state as it was when the request started and
\* persists no user message that carries sentiment data
C31_AssignedOncePerRequest ==
  /\ []((pc # "idle" /\ IsNone(assistant_message)) =>
          /\ conv.sentiment_state = committed.conv.sentiment_state
          /\ ~IsNone(user_message) => IsNone(user_message.sentiment_data))
  /\ [](~IsNone(assistant_message) =>
          /\ conv.sentiment_state = to_dict(cumulative.state)
          /\ user_message.sentiment_data = ReconciledData)
  /\ [][(pc # "closed" /\
           (\/ conv'.sentiment_state # conv.sentiment_state
            \/ /\ ~IsNone(user_message) /\ ~IsNone(user_message')
               /\ user_message'.sentiment_data # user_message.sentiment_data)) =>
          /\ pc = "persist"
          /\ ~IsNone(cumulative) /\ ~IsNone(message_sentiment)
          /\ IsNone(assistant_message) /\ ~IsNone(assistant_message')]_vars
  /\ [][(pc = "closed" /\ LastType = "error") =>
          /\ committed'.conv.sentiment_state = committed.conv.sentiment_state
          /\ conv'.sentiment_state = committed.conv.sentiment_state
          /\ (session_ok /\ ~IsNone(user_message)) =>
               IsNone(user_message.sentiment_data)]_vars

\* the second request on a conversation failed at the flush of the
\* assistant Message, after the new state had been assigned
C31_Witness ==
  /\ pc = "closed"
  /\ LastType = "error"
  /\ fault = "flush"
  /\ ~IsNone(assistant_message)
  /\ ~IsNone(committed.conv.sentiment_state)
  /\ conv.sentiment_state # committed.conv.sentiment_state

\* message sentiments the structured path can build from a terminal chunk:
\* the chunk's own values, or score 0.0 and label Neutral when it has none
StructuredSentiments ==
  { SentimentResult(RatOfInt(-8000), "Negative", "structured", "sad", "None"),
    SentimentResult(RatOfInt(15000), "Positive", "structured", "happy", "None"),
    SentimentResult(RatOfInt(0), "Neutral", "structured", "None", "None") }

\* the request runs the structured method
OnStructuredPath == pc # "idle" /\ req.method = "structured"

AllowedIn(lo, hi) ==
  {c \in 1..MaxChecks :
     /\ r_checks[c].pc = 5 /\ r_checks[c].allowed
     /\ lo < r_checks[c].time /\ r_checks[c].time <= hi}

\* C33: the number of allowed checks with timestamps inside any interval of
\* window length never exceeds the limit, for sequential and for overlapping
\* checks (intervals are taken half-open and ending at an allowed check,
\* which covers every interval of that length)
C33_WindowBound ==
  \A c \in 1..MaxChecks :
    (r_checks[c].pc = 5 /\ r_checks[c].allowed) =>
      Cardinality(AllowedIn(r_checks[c].time - Window, r_checks[c].time))
        <= r_limit

\* no two pipeline requests are in flight at once
ChecksInSequence ==
  Cardinality({c \in 1..MaxChecks : r_checks[c].pc \in 1..4}) <= 1

\* the store answered check c
Answered(c) == r_checks[c].pc = 5 /\ r_checks[c].count >= 0

\* the checks up to c, c included, that reached the store with a timestamp
\* inside the window of c, whether they were then allowed or denied
SentInWindowOf(c) ==
  {d \in 1..c : /\ r_checks[d].time > 0
                /\ r_checks[d].time > r_checks[c].time - Window}

ChangedRows ==
  IF ret.op \in {"rename_conversation", "delete_conversation"} THEN ret.ok
  ELSE IF ret.op = "stream_chat" THEN ret.conversation # 0
  ELSE ret.op = "delete_all_conversations"

\* every call that changed rows went on to delete the caller's history entry
\* (with a cache that is not configured there is no entry to delete)
MutationsInvalidate == (cache_up /\ ChangedRows) => ret.history_call = "ok"

\* every cached listing holds rows as the database has them
CachedFresh ==
  \A u \in Users :
    cache_kv[HistoryKey(u)] # None =>
      cache_kv[HistoryKey(u)].items =
        Listing(u, Len(cache_kv[HistoryKey(u)].items))

\* the listing last returned holds rows as the database has them
ReadFresh ==
  ret.op = "get_conversation_history" =>
    ret.items = Listing(ret.user, Len(ret.items))

\* C35: a get_conversation_history that follows a mutation returns the
\* listing as the database has it, never one computed before the mutation,
\* also when a cache-population task spawned by an earlier read completes
\* after the invalidation. Stated step by step: while the cached listings are
\* up to date, a step in which no mutation failed to invalidate the caller's
\* entry leaves them up to date and the listing returned up to date
C35_NoStaleListing ==
  [][(CachedFresh /\ MutationsInvalidate') => (CachedFresh' /\ ReadFresh')]_vars

\* a pending cache-population task holds rows as the database has them
PendingFresh ==
  history_task # None =>
    history_task.items =
      Listing(history_task.user_id, Len(history_task.items))

\* C39: get_conversation_history(user, limit) returns the min(limit, total)
\* most recently updated conversations of the user, latest first, from the
\* cache as from the database, also when the cached listing was stored by a
\* call with a smaller limit (stated for calls made while no cached or
\* pending listing is out of date)
C39_LimitHonoured ==
  [][(/\ CachedFresh
      /\ PendingFresh
      /\ nCalls' # nCalls
      /\ ret'.op = "get_conversation_history") =>
       (/\ ret'.items = Listing(ret'.user, ret'.limit)
        /\ Len(ret'.items) =
             (IF Len(Listing(ret'.user, MaxConversations)) < ret'.limit
                THEN Len(Listing(ret'.user, MaxConversations))
                ELSE ret'.limit))]_vars

\* C37: when both gathered appends of a request take effect, the two turns
\* are added to the cached context as user turn, then assistant turn
C37_TurnsInOrder ==
  [][(pc = "cache_sync" /\ Len(cache_ctx') = Len(cache_ctx) + 2) =>
       SubSeq(cache_ctx', Len(cache_ctx) + 1, Len(cache_ctx) + 2)
         = <<"user", "assistant">>]_vars

CountBefore ==
  CHOOSE n \in {x_req[r].cur.count : r \in 1..MaxOverlap} :
    \A r \in 1..MaxOverlap : n <= x_req[r].cur.count

C36_BothCounted ==
  (\A r \in 1..MaxOverlap : x_req[r].pc = "done")
    => from_dict(x_row).count = CountBefore + MaxOverlap

====
